---- MODULE Spec2Model ----
(***************************************************************************)
(* Doodle Type (games/doodle_type/game.py) with its voice collaborator     *)
(* (resources/ResourceManager.py): the job registry, the image-fetch       *)
(* worker, the voice worker and the main loop with its reveal ("flash")    *)
(* state machine.                                                          *)
(*                                                                         *)
(* Words are sequences of one-character strings.  Every block the code     *)
(* runs under job_lock is atomic; one iteration of each thread's loop is   *)
(* one action (the registry operations of different threads commute        *)
(* unless they touch the same job, and a job is touched by at most one     *)
(* image signal and one audio signal).  Time is kept as the milliseconds   *)
(* elapsed since the active reveal started (now - flash["start"]).         *)
(***************************************************************************)
EXTENDS Integers, Sequences, FiniteSets, TLC

VARIABLES
    job_queue,       \* game.py:80   word -> DownloadJob, in insertion order
    failed_words,    \* game.py:84   the exclusion set
    download_queue,  \* game.py:82   image-fetch requests (FIFO)
    next_id,         \* identity of the next DownloadJob object constructed
    voice_queue,     \* ResourceManager.py:30  voice requests (FIFO)
    voice_cache,     \* ResourceManager.py:31  keys of voices generated in this run
    voice_files,     \* the <word>.wav files in the voice directory
    items,           \* game.py:436  on-screen DisplayItems
    rects,           \* game.py:437  their rectangles (by owning item)
    loaded_words,    \* game.py:512
    buf,             \* game.py:507  the typed buffer
    flash,           \* game.py:508  the active reveal, or None
    completed_jobs,  \* game.py:521  the batch taken by the latest iteration
    backup_job,      \* game.py:672  the latest result of get_backup_job()
    attempts,        \* game.py:689  rejected draws of the latest backup refill
    new_word,        \* game.py:691  the word it drew last
    returned,        \* ids of the jobs get_completed_jobs has returned, in order
    dl_word,         \* game.py:196  download_worker's local `word`
    dl_complete,     \* game.py:205  download_worker's local `job_complete`
    dl_found,        \* game.py:108,113  mark_image_ready found (and printed) the job
    vw_word,         \* ResourceManager.py:148  _voice_worker's local `word`
    vw_found,        \* game.py:122,131  mark_audio_* found (and printed) the job
    failures,        \* number of fetches (image or voice) that have failed
    vacated,         \* items on screen before the latest reveal that ended with no
                     \* backup, while fewer are on screen; otherwise 0
    dl_alive,        \* game.py:469  download_thread is running
    dl_raised,       \* game.py:214  the latest word ended in the except clause
    music_stops,     \* game.py:657  calls of pygame.mixer.music.stop() since the
                     \* latest activation of a reveal
    job_lock,        \* game.py:81   the thread holding job_lock, or Free
    voice_lock,      \* ResourceManager.py:32  the thread holding voice_lock, or Free
    pc,              \* per thread, the steps left of the operation it is running
    qd_results,      \* game.py:224,232  what qd.get_drawing yields, call by call
    ce,              \* game.py:220  the call of choose_efficient: what it returned
                     \* and the fetches it made, or NoCall before it has run
    strokes,         \* game.py:295  render's argument strokes (the drawing)
    progress,        \* game.py:295  render's argument progress, in ProgressSteps-ths
    prior,           \* the progress of the render before the latest one, or -1
    surf,            \* game.py:348  the surface the latest render returned
    place_args,      \* game.py:406  random_pos's arguments bounds and rects, and
                     \* what random.randint yields, draw by draw
    placement,       \* game.py:413,414  what random_pos returned, or NoPlacement
    loop_pc,         \* game.py:514  the statement run_game's loop is at
    calls,           \* the calls of the registry made since the iteration of the
                     \* loop began, each with the truth value of what it returned
    loop_flash,      \* game.py:628  flash is not None
    loop_left,       \* game.py:168,522  the jobs the for loop has still to visit
    loop_attempts,   \* game.py:169,689  attempts
    rv_flash,        \* game.py:596  flash, of a reveal followed on its own
    rv_frame,        \* game.py:652,736  what the latest pygame.display.flip() showed
    rv_start,        \* game.py:615  the start passed to pygame.mixer.music.play
    dw_pc,           \* game.py:194  the statement download_worker is at
    dw_marks         \* game.py:205,217  the payloads passed to mark_image_ready
                     \* for the word download_worker is handling

vars == <<job_queue, failed_words, download_queue, next_id, voice_queue,
          voice_cache, voice_files, items, rects, loaded_words, buf, flash,
          completed_jobs, backup_job, attempts, new_word, returned,
          dl_word, dl_complete, dl_found, vw_word, vw_found, failures,
          vacated, dl_alive, dl_raised, music_stops, job_lock, voice_lock, pc,
          qd_results, ce, strokes, progress, prior, surf,
          place_args, placement,
          loop_pc, calls, loop_flash, loop_left, loop_attempts,
          rv_flash, rv_frame, rv_start, dw_pc, dw_marks>>

\* the state of the locks and of the threads inside the registry's operations
lock_vars == <<job_lock, voice_lock, pc>>

\* the call of choose_efficient and its inputs
fetch_vars == <<qd_results, ce>>

\* the calls of render on one drawing
render_vars == <<strokes, progress, prior, surf>>

\* the call of random_pos
place_vars == <<place_args, placement>>

\* one iteration of run_game's loop, statement by statement
loop_vars == <<loop_pc, calls, loop_flash, loop_left, loop_attempts>>

\* one reveal, frame by frame
reveal_vars == <<rv_flash, rv_frame, rv_start>>

\* download_worker on one word, statement by statement
worker_vars == <<dw_pc, dw_marks>>

\* the calls of the functions that are checked on their own
fn_vars ==
    <<fetch_vars, render_vars, place_vars, loop_vars, reveal_vars, worker_vars>>

(***************************************************************************)
(* Program constants                                                       *)
(***************************************************************************)
MAX_ITEMS == 5
FLASH_MS == 2000
DISPLAY_MS == 3000
REPLACE_ATTEMPTS == 10

(***************************************************************************)
(* Bounds of the model                                                     *)
(***************************************************************************)
MaxFailures == 1     \* fetches the environment lets fail in one run
MaxEvents == 1       \* key-down events delivered to one loop iteration

\* None, as an image payload, a reveal, a job and a word
None == "None"
NoFlash == [idx |-> -1]
NoJob == [id |-> 0]
NoWord == <<>>

\* a lock nobody holds, and the threads that take the locks
Free == "Free"
NoCall == [fetches |-> 0]
NoSurface == [w |-> 0]
NoArgs == [rects |-> <<>>]
NoPlacement == [draws |-> 0]
NoFrame == [reveal |-> FALSE]
NoStart == [den |-> 0]
Threads == {"main", "download", "voice"}

\* a fetched drawing
Drawing == "drawing"

\* The word pool (qd.drawing_names): "a" is a proper prefix of "a b".
CATEGORIES ==
    << <<"a">>, <<"a", " ", "b">>, <<"b">>, <<"c">>, <<"d">>, <<"e">>, <<"f">> >>

Pool == {CATEGORIES[i] : i \in 1..Len(CATEGORIES)}

\* Outcomes of random.sample(CATEGORIES, 5) explored.
Samples ==
    { << <<"a", " ", "b">>, <<"a">>, <<"b">>, <<"c">>, <<"d">> >> }

\* Outcomes of random.choice([w for w in CATEGORIES if w not in selected_words])
\* explored.
BackupWords == { <<"e">> }

\* Voice files left in the voice directory by earlier runs.
InitialVoiceFiles == { {} }

\* Key-down events: a letter (e.unicode.lower()), space, backspace, any other key.
Letters == {"a", "b"}
Keys == Letters \cup {"SPACE", "BACKSPACE", "OTHER"}

\* random.uniform(0.8, 1.2), in tenths.
DrawSpeeds == {8, 12}

\* Milliseconds between two iterations of the main loop.
TickMs == {3000}

(***************************************************************************)
(* Sequence helpers                                                        *)
(***************************************************************************)
Range(s) == {s[i] : i \in 1..Len(s)}

RemoveAt(s, i) == SubSeq(s, 1, i - 1) \o SubSeq(s, i + 1, Len(s))

InsertAt(s, i, x) == SubSeq(s, 1, i - 1) \o <<x>> \o SubSeq(s, i, Len(s))

\* str.startswith
StartsWith(w, p) == Len(p) <= Len(w) /\ SubSeq(w, 1, Len(p)) = p

\* str.lower on one character
LowerChar(c) == CASE c = "A" -> "a" [] c = "B" -> "b" [] OTHER -> c

Lower(w) == [i \in 1..Len(w) |-> LowerChar(w[i])]

RECURSIVE LStrip(_)
LStrip(w) == IF w # <<>> /\ Head(w) = " " THEN LStrip(Tail(w)) ELSE w

RECURSIVE RStrip(_)
RStrip(w) ==
    IF w # <<>> /\ w[Len(w)] = " " THEN RStrip(SubSeq(w, 1, Len(w) - 1)) ELSE w

\* word.lower().strip()
VoiceKey(word) == RStrip(LStrip(Lower(word)))

(***************************************************************************)
(* DownloadJob                                                             *)
(***************************************************************************)
DownloadJob(word, visible, id) ==
    [word |-> word, id |-> id, image_ready |-> FALSE, audio_ready |-> FALSE,
     image_data |-> None, visible |-> visible,
     image_failed |-> FALSE, audio_failed |-> FALSE]

is_complete(job) ==
    job.image_ready /\ job.audio_ready /\ ~job.image_failed /\ ~job.audio_failed

has_failed(job) == job.image_failed \/ job.audio_failed

\* word in job_queue
InRegistry(jq, word) == \E i \in 1..Len(jq) : jq[i].word = word

\* the position of job_queue[word]
IndexOf(jq, word) == CHOOSE i \in 1..Len(jq) : jq[i].word = word

\* [x for x in s if test(x)], as the positions kept
RECURSIVE Filter(_, _)
Filter(s, keep) ==
    IF s = <<>> THEN <<>>
    ELSE IF keep[1] THEN <<Head(s)>> \o Filter(Tail(s), Tail(keep))
         ELSE Filter(Tail(s), Tail(keep))

(***************************************************************************)
(* The registry state the operations below act on: a record                *)
(*   [job_queue, failed_words, download_queue, voice_queue, next_id]       *)
(* read with the voice directory and cache.                                *)
(***************************************************************************)
Registry ==
    [job_queue |-> job_queue, failed_words |-> failed_words,
     download_queue |-> download_queue, voice_queue |-> voice_queue,
     next_id |-> next_id, voice_files |-> voice_files,
     voice_cache |-> voice_cache]

\* preload_voice queueing the word whether or not its voice is available
preload_voice_always(r, word) == Append(r.voice_queue, VoiceKey(word))

\* ResourceManager.preload_voice: the new voice_queue
preload_voice(r, word) ==
    LET key == VoiceKey(word) IN
    IF key \notin r.voice_files /\ key \notin r.voice_cache
    THEN Append(r.voice_queue, key)
    ELSE r.voice_queue

\* create_job without the test `word not in job_queue`
create_job_unchecked(r, word, visible) ==
    IF word \notin r.failed_words
    THEN [reg |-> [r EXCEPT
                     !.job_queue = Append(@, DownloadJob(word, visible, r.next_id)),
                     !.download_queue = Append(@, word),
                     !.voice_queue = preload_voice(r, word),
                     !.next_id = @ + 1],
          ret |-> TRUE]
    ELSE [reg |-> r, ret |-> FALSE]

\* create_job: the new registry state and the value returned
create_job(r, word, visible) ==
    IF ~InRegistry(r.job_queue, word) /\ word \notin r.failed_words
    THEN [reg |-> [r EXCEPT
                     !.job_queue = Append(@, DownloadJob(word, visible, r.next_id)),
                     !.download_queue = Append(@, word),
                     !.voice_queue = preload_voice(r, word),
                     !.next_id = @ + 1],
          ret |-> TRUE]
    ELSE [reg |-> r, ret |-> FALSE]

\* mark_image_ready returning True for every payload it stores
mark_image_ready_true(jq, word, image_data) ==
    IF InRegistry(jq, word)
    THEN LET i == IndexOf(jq, word) IN
         IF image_data = None
         THEN [jq |-> [jq EXCEPT ![i].image_failed = TRUE], ret |-> FALSE,
               found |-> TRUE]
         ELSE [jq |-> [jq EXCEPT ![i].image_ready = TRUE,
                                 ![i].image_data = image_data],
               ret |-> TRUE, found |-> TRUE]
    ELSE [jq |-> jq, ret |-> FALSE, found |-> FALSE]

\* mark_image_ready: the new job_queue, the value returned, and whether the job
\* was found (the function prints only then)
mark_image_ready(jq, word, image_data) ==
    IF InRegistry(jq, word)
    THEN LET i == IndexOf(jq, word) IN
         IF image_data = None
         THEN [jq |-> [jq EXCEPT ![i].image_failed = TRUE], ret |-> FALSE,
               found |-> TRUE]
         ELSE LET new == [jq EXCEPT ![i].image_ready = TRUE,
                                    ![i].image_data = image_data]
              IN [jq |-> new, ret |-> is_complete(new[i]), found |-> TRUE]
    ELSE [jq |-> jq, ret |-> FALSE, found |-> FALSE]

\* mark_audio_ready with job_queue.setdefault(word, DownloadJob(word))
mark_audio_ready_setdefault(jq, word) ==
    LET all == IF InRegistry(jq, word) THEN jq
               ELSE Append(jq, DownloadJob(word, TRUE, 0))
        i == IndexOf(all, word)
        new == [all EXCEPT ![i].audio_ready = TRUE]
    IN [jq |-> new, ret |-> is_complete(new[i]), found |-> TRUE]

\* mark_audio_ready
mark_audio_ready(jq, word) ==
    IF InRegistry(jq, word)
    THEN LET i == IndexOf(jq, word)
             new == [jq EXCEPT ![i].audio_ready = TRUE]
         IN [jq |-> new, ret |-> is_complete(new[i]), found |-> TRUE]
    ELSE [jq |-> jq, ret |-> FALSE, found |-> FALSE]

\* mark_audio_failed starting the job over: a new DownloadJob with the failure
mark_audio_failed_reset(jq, word) ==
    IF InRegistry(jq, word)
    THEN LET i == IndexOf(jq, word) IN
         [jq |-> [jq EXCEPT ![i] = [DownloadJob(word, jq[i].visible, jq[i].id)
                                      EXCEPT !.audio_failed = TRUE]],
          ret |-> FALSE, found |-> TRUE]
    ELSE [jq |-> jq, ret |-> FALSE, found |-> FALSE]

\* mark_audio_failed
mark_audio_failed(jq, word) ==
    IF InRegistry(jq, word)
    THEN [jq |-> [jq EXCEPT ![IndexOf(jq, word)].audio_failed = TRUE],
          ret |-> FALSE, found |-> TRUE]
    ELSE [jq |-> jq, ret |-> FALSE, found |-> FALSE]

\* get_completed_jobs reading job_queue[word] where it pops
get_completed_jobs_unpopped(jq, visible_only) ==
    LET taken == [i \in 1..Len(jq) |->
                    IF visible_only
                    THEN is_complete(jq[i]) /\ jq[i].visible
                    ELSE is_complete(jq[i])]
    IN [completed |-> Filter(jq, taken), jq |-> jq]

\* get_completed_jobs testing image_ready where it tests is_complete
get_completed_jobs_image_only(jq, visible_only) ==
    LET taken == [i \in 1..Len(jq) |->
                    IF visible_only
                    THEN jq[i].image_ready /\ jq[i].visible
                    ELSE jq[i].image_ready]
    IN [completed |-> Filter(jq, taken),
        jq |-> Filter(jq, [i \in 1..Len(jq) |-> ~taken[i]])]

\* get_completed_jobs: the jobs returned and the new job_queue
get_completed_jobs(jq, visible_only) ==
    LET taken == [i \in 1..Len(jq) |->
                    IF visible_only
                    THEN is_complete(jq[i]) /\ jq[i].visible
                    ELSE is_complete(jq[i])]
    IN [completed |-> Filter(jq, taken),
        jq |-> Filter(jq, [i \in 1..Len(jq) |-> ~taken[i]])]

\* get_backup_job without the test job.is_complete
get_backup_job_any(jq) ==
    LET ready == {i \in 1..Len(jq) : ~jq[i].visible} IN
    IF ready # {}
    THEN LET i == CHOOSE k \in ready : \A m \in ready : k <= m
         IN [job |-> [jq[i] EXCEPT !.visible = TRUE], jq |-> RemoveAt(jq, i)]
    ELSE [job |-> NoJob, jq |-> jq]

\* get_backup_job returning job_queue[word] where it pops
get_backup_job_unpopped(jq) ==
    LET ready == {i \in 1..Len(jq) : is_complete(jq[i]) /\ ~jq[i].visible} IN
    IF ready # {}
    THEN LET i == CHOOSE k \in ready : \A m \in ready : k <= m
         IN [job |-> [jq[i] EXCEPT !.visible = TRUE],
             jq |-> [jq EXCEPT ![i].visible = TRUE]]
    ELSE [job |-> NoJob, jq |-> jq]

\* get_backup_job: the job returned (or None) and the new job_queue
get_backup_job(jq) ==
    LET ready == {i \in 1..Len(jq) : is_complete(jq[i]) /\ ~jq[i].visible} IN
    IF ready # {}
    THEN LET i == CHOOSE k \in ready : \A m \in ready : k <= m
         IN [job |-> [jq[i] EXCEPT !.visible = TRUE], jq |-> RemoveAt(jq, i)]
    ELSE [job |-> NoJob, jq |-> jq]

get_visible_job_count(jq) == Cardinality({i \in 1..Len(jq) : jq[i].visible})

get_backup_job_count(jq) == Cardinality({i \in 1..Len(jq) : ~jq[i].visible})


(***************************************************************************)
(* random.choice(CATEGORIES) inside a retry loop: the stream of draws is   *)
(* <<first, rest>>, the first draw and the word every later draw yields.   *)
(* The streams explored draw one word throughout, or CATEGORIES[1] first.  *)
(***************************************************************************)
Streams == UNION {{<<rest, rest>>, <<CATEGORIES[1], rest>>} : rest \in Pool}

Draw(stream, n) == IF n = 0 THEN stream[1] ELSE stream[2]

\* game.py:169-175 and 689-695, the retry loop: the new registry state, the
\* number of rejected draws and the word drawn last
RECURSIVE create_replacement(_, _, _, _)
create_replacement(r, visible, stream, n) ==
    IF n < REPLACE_ATTEMPTS
    THEN LET c == create_job(r, Draw(stream, n), visible) IN
         IF c.ret
         THEN [reg |-> c.reg, attempts |-> n, new_word |-> Draw(stream, n)]
         ELSE create_replacement(r, visible, stream, n + 1)
    ELSE [reg |-> r, attempts |-> n, new_word |-> Draw(stream, n - 1)]

\* the replacements created with visible=True whatever the failed job was
RECURSIVE replace_failed_visible(_, _, _)
replace_failed_visible(r, failed_jobs, streams) ==
    IF failed_jobs = <<>> THEN r
    ELSE replace_failed_visible(
             create_replacement(r, TRUE, Head(streams), 0).reg,
             Tail(failed_jobs), Tail(streams))

RECURSIVE replace_failed(_, _, _)
replace_failed(r, failed_jobs, streams) ==
    IF failed_jobs = <<>> THEN r
    ELSE replace_failed(
             create_replacement(r, Head(failed_jobs).visible, Head(streams), 0).reg,
             Tail(failed_jobs), Tail(streams))

\* the jobs clean_failed_jobs pops
FailedJobs(jq) == Filter(jq, [i \in 1..Len(jq) |-> has_failed(jq[i])])

\* clean_failed_jobs without failed_words.add(word)
clean_failed_jobs_unrecorded(r, streams) ==
    LET failed_jobs == FailedJobs(r.job_queue)
        popped == [r EXCEPT
                     !.job_queue =
                         Filter(@, [i \in 1..Len(@) |-> ~has_failed(@[i])])]
    IN replace_failed(popped, failed_jobs, streams)

\* clean_failed_jobs: the new registry state
clean_failed_jobs(r, streams) ==
    LET failed_jobs == FailedJobs(r.job_queue)
        popped == [r EXCEPT
                     !.job_queue =
                         Filter(@, [i \in 1..Len(@) |-> ~has_failed(@[i])]),
                     !.failed_words =
                         @ \cup {failed_jobs[i].word : i \in 1..Len(failed_jobs)}]
    IN replace_failed(popped, failed_jobs, streams)

(***************************************************************************)
(* The main loop of run_game.  Its locals travel in a record               *)
(*   [reg, items, rects, loaded_words, buf, flash, backup_job, attempts,   *)
(*    new_word, music_stops]                                               *)
(***************************************************************************)
\* build_from_job: the DisplayItem
build_from_job(job) == [word |-> job.word, id |-> job.id, drawing |-> job.image_data]

\* ResourceManager.play_voice: the new voice_queue
play_voice(r, word) ==
    LET key == VoiceKey(word) IN
    IF key \in r.voice_files \/ key \in r.voice_cache
    THEN r.voice_queue
    ELSE Append(r.voice_queue, key)

\* the activation without buf = ""
Activate_keeping_buf(L, it, idx, draw_speed) ==
    [L EXCEPT
       !.flash = [item |-> it, idx |-> idx, draw_speed |-> draw_speed,
                  elapsed |-> 0, music_stopped |-> FALSE],
       !.reg.voice_queue = play_voice(L.reg, it.word),
       !.music_stops = 0]

\* game.py:535-553 and 595-617: the reveal is activated for items[idx]
Activate(L, it, idx, draw_speed) ==
    [L EXCEPT
       !.flash = [item |-> it, idx |-> idx, draw_speed |-> draw_speed,
                  elapsed |-> 0, music_stopped |-> FALSE],
       !.reg.voice_queue = play_voice(L.reg, it.word),
       !.music_stops = 0,
       !.buf = <<>>]

\* job_queue[job.word] = job
SetJob(jq, job) ==
    IF InRegistry(jq, job.word)
    THEN [jq EXCEPT ![IndexOf(jq, job.word)] = job]
    ELSE Append(jq, job)

\* game.py:555-562: a completed job that finds the screen full
ConvertToBackup(L, job) ==
    IF get_backup_job_count(L.reg.job_queue) = 0
    THEN [L EXCEPT !.reg.job_queue = SetJob(@, [job EXCEPT !.visible = FALSE])]
    ELSE L

\* game.py:522-562: the loop over completed_jobs
RECURSIVE AddCompleted(_, _, _)
AddCompleted(L, jobs, draw_speed) ==
    IF jobs = <<>> THEN L
    ELSE LET job == Head(jobs) IN
         IF job.word \notin L.loaded_words /\ Len(L.items) < MAX_ITEMS
         THEN LET it == build_from_job(job) IN
              IF it.drawing # None
              THEN LET L1 == [L EXCEPT !.items = Append(@, it),
                                       !.rects = Append(@, it.id),
                                       !.loaded_words = @ \cup {job.word}]
                   IN IF L.buf # <<>> /\ it.word = L.buf
                      THEN Activate(L1, it, Len(L1.items) - 1, draw_speed)
                      ELSE AddCompleted(L1, Tail(jobs), draw_speed)
              ELSE AddCompleted(L, Tail(jobs), draw_speed)
         ELSE IF Len(L.items) >= MAX_ITEMS
              THEN AddCompleted(ConvertToBackup(L, job), Tail(jobs), draw_speed)
              ELSE AddCompleted(L, Tail(jobs), draw_speed)

\* any(it["word"].startswith(test_buf) for it in items)
AnyStartsWith(its, test_buf) ==
    \E i \in 1..Len(its) : StartsWith(its[i].word, test_buf)

\* game.py:593-618: the first item whose word is the buffer starts the reveal
MatchExact(L, draw_speed) ==
    LET hits == {i \in 1..Len(L.items) : L.items[i].word = L.buf} IN
    IF hits # {}
    THEN LET i == CHOOSE k \in hits : \A m \in hits : k <= m
         IN Activate(L, L.items[i], i - 1, draw_speed)
    ELSE L

\* the key handler without `and not flash`
HandleKey_unguarded(L, key, draw_speed) ==
    IF key = "BACKSPACE"
    THEN [L EXCEPT !.buf = SubSeq(@, 1, Len(@) - 1)]
    ELSE IF key = "SPACE"
    THEN IF AnyStartsWith(L.items, Append(L.buf, " "))
         THEN [L EXCEPT !.buf = Append(@, " ")]
         ELSE L
    ELSE IF key \in Letters
    THEN IF AnyStartsWith(L.items, Append(L.buf, key))
         THEN MatchExact([L EXCEPT !.buf = Append(@, key)], draw_speed)
         ELSE L
    ELSE L

\* the key handler taking every letter and space, prefix or not
HandleKey_unchecked(L, key, draw_speed) ==
    IF L.flash # NoFlash THEN L
    ELSE IF key = "BACKSPACE"
    THEN [L EXCEPT !.buf = SubSeq(@, 1, Len(@) - 1)]
    ELSE IF key = "SPACE"
    THEN [L EXCEPT !.buf = Append(@, " ")]
    ELSE IF key \in Letters
    THEN MatchExact([L EXCEPT !.buf = Append(@, key)], draw_speed)
    ELSE L

\* game.py:570-626: one key-down event
HandleKey(L, key, draw_speed) ==
    IF L.flash # NoFlash THEN L
    ELSE IF key = "BACKSPACE"
    THEN [L EXCEPT !.buf = SubSeq(@, 1, Len(@) - 1)]
    ELSE IF key = "SPACE"
    THEN IF AnyStartsWith(L.items, Append(L.buf, " "))
         THEN [L EXCEPT !.buf = Append(@, " ")]
         ELSE L
    ELSE IF key \in Letters
    THEN IF AnyStartsWith(L.items, Append(L.buf, key))
         THEN MatchExact([L EXCEPT !.buf = Append(@, key)], draw_speed)
         ELSE L
    ELSE L

RECURSIVE HandleEvents(_, _, _)
HandleEvents(L, events, draw_speed) ==
    IF events = <<>> THEN L
    ELSE HandleEvents(HandleKey(L, Head(events), draw_speed), Tail(events), draw_speed)

\* drawing_prog >= 1, with drawing_prog = min(1, elapsed * draw_speed / FLASH_MS)
DrawingDone(f) == f.elapsed * f.draw_speed >= FLASH_MS * 10

\* total_prog >= 1 with the display time left out of total_time
TotalDone_no_hold(f) == f.elapsed * f.draw_speed >= FLASH_MS * 10

\* total_prog >= 1, with total_prog = elapsed / (FLASH_MS / draw_speed + DISPLAY_MS)
TotalDone(f) == f.elapsed * f.draw_speed >= FLASH_MS * 10 + DISPLAY_MS * f.draw_speed

\* the completion without items.pop / rects.pop
RemoveRevealed_kept(L) == L

\* game.py:663-669: the revealed item leaves the screen
RemoveRevealed(L) ==
    LET idx == L.flash.idx IN
    [L EXCEPT !.items = IF idx < Len(@) THEN RemoveAt(@, idx + 1) ELSE @,
              !.rects = IF idx < Len(@) THEN RemoveAt(@, idx + 1) ELSE @]

\* the promotion with items.append where it inserts at flash["idx"]
PromoteBackup_appended(L) ==
    LET b == get_backup_job(L.reg.job_queue)
        L1 == [L EXCEPT !.reg.job_queue = b.jq, !.backup_job = b.job]
    IN IF b.job # NoJob
       THEN LET new_it == build_from_job(b.job)
            IN IF new_it.drawing # None
               THEN [L1 EXCEPT !.items = Append(@, new_it),
                               !.rects = Append(@, new_it.id),
                               !.loaded_words = @ \cup {b.job.word}]
               ELSE L1
       ELSE L1

\* game.py:671-682: a ready backup takes the vacated slot
PromoteBackup(L) ==
    LET b == get_backup_job(L.reg.job_queue)
        L1 == [L EXCEPT !.reg.job_queue = b.jq, !.backup_job = b.job]
    IN IF b.job # NoJob
       THEN LET new_it == build_from_job(b.job)
                idx == L.flash.idx
            IN IF new_it.drawing # None
               THEN [L1 EXCEPT
                       !.items = InsertAt(@, (IF idx < Len(@) THEN idx ELSE Len(@)) + 1,
                                          new_it),
                       !.rects = InsertAt(@, (IF idx < Len(@) THEN idx ELSE Len(@)) + 1,
                                          new_it.id),
                       !.loaded_words = @ \cup {b.job.word}]
               ELSE L1
       ELSE L1

\* the refill calling create_job without visible=False
RefillBackup_visible(L, stream) ==
    IF get_backup_job_count(L.reg.job_queue) = 0
    THEN LET c == create_replacement(L.reg, TRUE, stream, 0)
         IN [L EXCEPT !.reg = c.reg, !.attempts = c.attempts,
                      !.new_word = c.new_word]
    ELSE L

\* the refill without the test backup_count == 0
RefillBackup_always(L, stream) ==
    LET c == create_replacement(L.reg, FALSE, stream, 0)
    IN [L EXCEPT !.reg = c.reg, !.attempts = c.attempts, !.new_word = c.new_word]

\* game.py:684-697: one new backup when none is left
RefillBackup(L, stream) ==
    IF get_backup_job_count(L.reg.job_queue) = 0
    THEN LET c == create_replacement(L.reg, FALSE, stream, 0)
         IN [L EXCEPT !.reg = c.reg, !.attempts = c.attempts,
                      !.new_word = c.new_word]
    ELSE L

\* game.py:662-702
CompleteReveal(L, stream) ==
    [RefillBackup(PromoteBackup(RemoveRevealed(L)), stream) EXCEPT !.flash = NoFlash]

\* the music stopped at every tick with drawing_prog >= 1
StopMusic_every_tick(L) ==
    IF DrawingDone(L.flash)
    THEN [L EXCEPT !.music_stops = @ + 1, !.flash.music_stopped = TRUE]
    ELSE L

\* game.py:654-659: the pen sound is stopped when the drawing is complete
StopMusic(L) ==
    IF DrawingDone(L.flash) /\ ~L.flash.music_stopped
    THEN [L EXCEPT !.music_stops = @ + 1, !.flash.music_stopped = TRUE]
    ELSE L

\* game.py:628-705: the reveal's part of one iteration
StepFlash(L, stream) ==
    IF L.flash = NoFlash THEN L
    ELSE LET stopped == StopMusic(L)
         IN IF TotalDone(L.flash) THEN CompleteReveal(stopped, stream) ELSE stopped

\* now - flash["start"] at this iteration
Advance(f, dt) == IF f = NoFlash THEN NoFlash ELSE [f EXCEPT !.elapsed = @ + dt]

\* game.py:514-562: one iteration up to the event loop; the locals there
IterationHead(streams, draw_speed, dt) ==
    LET cleaned == clean_failed_jobs(Registry, streams)
        taken == get_completed_jobs(cleaned.job_queue, TRUE)
        L0 == [reg |-> [cleaned EXCEPT !.job_queue = taken.jq],
               items |-> items, rects |-> rects, loaded_words |-> loaded_words,
               buf |-> buf, flash |-> Advance(flash, dt), backup_job |-> backup_job,
               attempts |-> attempts, new_word |-> new_word,
               music_stops |-> music_stops]
    IN [locals |-> AddCompleted(L0, taken.completed, draw_speed),
        completed |-> taken.completed]

\* game.py:514-626: one iteration up to the reveal's part; the locals there
Iteration(streams, events, draw_speed, dt) ==
    LET head == IterationHead(streams, draw_speed, dt)
    IN [locals |-> HandleEvents(head.locals, events, draw_speed),
        completed |-> head.completed]

EventSeqs == UNION {[1..n -> Keys] : n \in 0..MaxEvents}

\* the draws the iteration consumes when it refills the backup pool
RefillStreams(L) ==
    IF /\ L.flash # NoFlash
       /\ TotalDone(L.flash)
       /\ get_backup_job_count(PromoteBackup(RemoveRevealed(L)).reg.job_queue) = 0
    THEN Streams
    ELSE {<<CATEGORIES[1], CATEGORIES[1]>>}

\* game.py:514-737: one iteration of the main loop.  The iteration's results
\* for every event sequence and draw speed, and the reveal's results for every
\* refill draw, are collected as sets, so that equal results give one step.
MainLoop ==
    \E streams \in [1..Len(FailedJobs(job_queue)) -> Streams] :
    \E dt \in (IF flash = NoFlash THEN {0} ELSE TickMs) :
    \E head \in {IterationHead(streams, 10, dt)} :
    \E it \in UNION {
            LET probe == [locals |-> HandleEvents(head.locals, events, 10),
                          completed |-> head.completed]
            IN IF flash = NoFlash /\ probe.locals.flash # NoFlash
               THEN {Iteration(streams, events, draw_speed, dt) :
                        draw_speed \in DrawSpeeds}
               ELSE {probe}
            : events \in EventSeqs} :
    \E L \in {StepFlash(it.locals, stream) : stream \in RefillStreams(it.locals)} :
        /\ job_queue' = L.reg.job_queue
        /\ failed_words' = L.reg.failed_words
        /\ download_queue' = L.reg.download_queue
        /\ voice_queue' = L.reg.voice_queue
        /\ next_id' = L.reg.next_id
        /\ items' = L.items
        /\ rects' = L.rects
        /\ loaded_words' = L.loaded_words
        /\ buf' = L.buf
        /\ flash' = L.flash
        /\ completed_jobs' = it.completed
        /\ returned' = returned \o [i \in 1..Len(it.completed) |-> it.completed[i].id]
        /\ backup_job' = L.backup_job
        /\ attempts' = L.attempts
        /\ new_word' = L.new_word
        /\ vacated' = IF /\ it.locals.flash # NoFlash
                          /\ TotalDone(it.locals.flash)
                          /\ L.backup_job = NoJob
                       THEN Len(it.locals.items)
                       ELSE IF Len(L.items) >= vacated THEN 0 ELSE vacated
        /\ UNCHANGED <<voice_cache, voice_files, dl_word, dl_complete, dl_found,
                       vw_word, vw_found, failures, dl_alive, dl_raised>>
        /\ music_stops' = L.music_stops
        /\ UNCHANGED lock_vars
        /\ UNCHANGED fn_vars

(***************************************************************************)
(* The image-fetch worker and the voice worker                             *)
(***************************************************************************)
\* what choose_efficient may return while the environment may still fail
FetchResults == {Drawing} \cup (IF failures < MaxFailures THEN {None} ELSE {})

\* what the try block of download_worker may do with a word: run to its end,
\* or raise while the image is being fetched
TryOutcomes == {"done"} \cup (IF failures < MaxFailures THEN {"raise"} ELSE {})

\* download_worker without its `except Exception` clause: the exception ends
\* the thread
download_worker_uncaught(jq, word) ==
    [jq |-> jq, found |-> FALSE, alive |-> FALSE]

\* game.py:214-218, the except clause: the new job_queue, whether the job was
\* found, and whether the thread goes on
download_worker_except(jq, word) ==
    LET m == mark_image_ready(jq, word, None)
    IN [jq |-> m.jq, found |-> m.found, alive |-> TRUE]

\* game.py:192-218: one iteration of download_worker on a dequeued word
DownloadWorker ==
    /\ dl_alive
    /\ download_queue # <<>>
    /\ \E outcome \in TryOutcomes :
       \E drawing \in (IF outcome = "done" THEN FetchResults ELSE {None}) :
         LET word == Head(download_queue)
             m == mark_image_ready(job_queue, word, drawing)
             x == download_worker_except(job_queue, word)
         IN /\ download_queue' = Tail(download_queue)
            /\ dl_word' = word
            /\ dl_raised' = (outcome = "raise")
            /\ IF outcome = "done"
               THEN /\ job_queue' = m.jq
                    /\ dl_complete' = m.ret
                    /\ dl_found' = m.found
                    /\ dl_alive' = dl_alive
               ELSE /\ job_queue' = x.jq
                    /\ dl_complete' = dl_complete
                    /\ dl_found' = x.found
                    /\ dl_alive' = x.alive
            /\ failures' = IF drawing = None THEN failures + 1 ELSE failures
    /\ UNCHANGED <<failed_words, next_id, voice_queue, voice_cache, voice_files,
                   items, rects, loaded_words, buf, flash, completed_jobs,
                   backup_job, attempts, new_word, returned, vw_word, vw_found,
                   vacated>>
    /\ UNCHANGED lock_vars
    /\ UNCHANGED fn_vars
    /\ UNCHANGED music_stops

\* ResourceManager.py:146-209: one iteration of _voice_worker, the voice generated
VoiceWorkerReady ==
    /\ voice_queue # <<>>
    /\ LET word == Head(voice_queue) IN
         /\ voice_queue' = Tail(voice_queue)
         /\ voice_files' = voice_files \cup {word}
         /\ voice_cache' = voice_cache \cup {word}
         /\ job_queue' = mark_audio_ready(job_queue, word).jq
         /\ vw_word' = word
         /\ vw_found' = mark_audio_ready(job_queue, word).found
    /\ UNCHANGED <<failed_words, download_queue, next_id, items, rects,
                   loaded_words, buf, flash, completed_jobs, backup_job,
                   attempts, new_word, returned, dl_word, dl_complete, dl_found,
                   failures, vacated, dl_alive, dl_raised>>
    /\ UNCHANGED lock_vars
    /\ UNCHANGED fn_vars
    /\ UNCHANGED music_stops

\* ResourceManager.py:204-209: the request or the write raised
VoiceWorkerFailed ==
    /\ voice_queue # <<>>
    /\ failures < MaxFailures
    /\ Head(voice_queue) \notin voice_files
    /\ LET word == Head(voice_queue) IN
         /\ voice_queue' = Tail(voice_queue)
         /\ job_queue' = mark_audio_failed(job_queue, word).jq
         /\ vw_word' = word
         /\ vw_found' = mark_audio_failed(job_queue, word).found
    /\ failures' = failures + 1
    /\ UNCHANGED <<failed_words, download_queue, next_id, voice_cache,
                   voice_files, items, rects, loaded_words, buf, flash,
                   completed_jobs, backup_job, attempts, new_word, returned,
                   dl_word, dl_complete, dl_found, vacated, dl_alive, dl_raised>>
    /\ UNCHANGED lock_vars
    /\ UNCHANGED fn_vars
    /\ UNCHANGED music_stops

(***************************************************************************)
(* game.py:436-512: the state when the main loop is entered                *)
(***************************************************************************)
RECURSIVE create_visible_jobs(_, _)
create_visible_jobs(r, selected_words) ==
    IF selected_words = <<>> THEN r
    ELSE create_visible_jobs(create_job(r, Head(selected_words), TRUE).reg,
                             Tail(selected_words))

EmptyRegistry(files) ==
    [job_queue |-> <<>>, failed_words |-> {}, download_queue |-> <<>>,
     voice_queue |-> <<>>, next_id |-> 1, voice_files |-> files,
     voice_cache |-> {}]

GameInit ==
    \E selected_words \in Samples :
    \E backup_word \in BackupWords \ Range(selected_words) :
    \E files \in InitialVoiceFiles :
      LET r == create_job(create_visible_jobs(EmptyRegistry(files), selected_words),
                          backup_word, FALSE).reg
      IN /\ job_queue = r.job_queue
         /\ failed_words = r.failed_words
         /\ download_queue = r.download_queue
         /\ voice_queue = r.voice_queue
         /\ next_id = r.next_id
         /\ voice_files = files
         /\ voice_cache = {}
         /\ items = <<>>
         /\ rects = <<>>
         /\ loaded_words = {}
         /\ buf = <<>>
         /\ flash = NoFlash
         /\ completed_jobs = <<>>
         /\ backup_job = NoJob
         /\ dl_word = NoWord
         /\ attempts = 0
         /\ new_word = NoWord
         /\ returned = <<>>
         /\ dl_complete = FALSE
         /\ dl_found = FALSE
         /\ vw_word = NoWord
         /\ vw_found = FALSE
         /\ failures = 0
         /\ vacated = 0
         /\ dl_alive = TRUE
         /\ dl_raised = FALSE
         /\ music_stops = 0
         /\ job_lock = Free
         /\ voice_lock = Free
         /\ pc = [t \in Threads |-> <<>>]

\* no call of choose_efficient is being looked at
FetchIdle == qd_results = <<>> /\ ce = NoCall

\* no drawing is being rendered
RenderIdle == strokes = <<>> /\ progress = 0 /\ prior = -1 /\ surf = NoSurface

\* no call of random_pos is being looked at
PlaceIdle == place_args = NoArgs /\ placement = NoPlacement

\* the loop is not being followed statement by statement
LoopIdle ==
    /\ loop_pc = "off"
    /\ calls = <<>>
    /\ loop_flash = FALSE
    /\ loop_left = 0
    /\ loop_attempts = 0

\* no reveal is being followed frame by frame
RevealIdle == rv_flash = NoFlash /\ rv_frame = NoFrame /\ rv_start = NoStart

\* download_worker is not being followed statement by statement
WorkerIdle == dw_pc = "off" /\ dw_marks = <<>>

Init ==
    /\ GameInit
    /\ FetchIdle
    /\ RenderIdle
    /\ PlaceIdle
    /\ LoopIdle
    /\ RevealIdle
    /\ WorkerIdle

Next == MainLoop \/ DownloadWorker \/ VoiceWorkerReady \/ VoiceWorkerFailed

Spec == Init /\ [][Next]_vars


(***************************************************************************)
(* The locks.  Every function of the registry and of the voice collaborator *)
(* is the set of paths it may run, a path being the sequence of its steps:  *)
(*   "lock" / "unlock"     entering / leaving `with job_lock`               *)
(*   "reg"                 a read or write of job_queue or failed_words     *)
(*   "vlock" / "vunlock"   entering / leaving `with self.voice_lock`        *)
(*   "file", "net"         file I/O, network I/O                            *)
(*   "mem"                 any other in-memory work (queues, locals)        *)
(* pc[t] is what thread t has left of the path it is running.               *)
(***************************************************************************)
\* ResourceManager.py:249-262
preload_voice_paths ==
    { <<"mem">>,                                 \* 251-252: no API key
      <<"file">>,                                \* 258: the file exists
      <<"file", "vlock", "mem", "vunlock">> }    \* 258-261: cache test, put

\* game.py:86-99
create_job_paths ==
    { <<"lock", "reg", "unlock">> }              \* 89, 99: refused
    \cup { <<"lock", "reg", "reg", "mem">> \o p \o <<"unlock">> :
             p \in preload_voice_paths }         \* 89-98

\* game.py:101-115
mark_image_ready_paths ==
    { <<"lock", "reg", "unlock">>,               \* 104: no job
      <<"lock", "reg", "reg", "unlock">> }       \* 104-114

\* game.py:117-124
mark_audio_ready_paths ==
    { <<"lock", "reg", "unlock">>, <<"lock", "reg", "reg", "unlock">> }

\* game.py:126-132
mark_audio_failed_paths ==
    { <<"lock", "reg", "unlock">>, <<"lock", "reg", "reg", "unlock">> }

\* game.py:134-146
get_completed_jobs_paths ==
    { <<"lock", "reg", "unlock">>,               \* 139: nothing complete
      <<"lock", "reg", "reg", "unlock">> }       \* 139-145: the pops

\* game.py:148-156
get_backup_job_paths ==
    { <<"lock", "reg", "unlock">>, <<"lock", "reg", "reg", "unlock">> }

\* the count read without the lock
get_visible_job_count_bare == { <<"reg">> }

\* game.py:182-185
get_visible_job_count_paths == { <<"lock", "reg", "unlock">> }

\* game.py:187-190
get_backup_job_count_paths == { <<"lock", "reg", "unlock">> }

\* game.py:158-175: the purge, then create_job for a replacement
clean_failed_jobs_paths ==
    LET purge == { <<"lock", "reg", "unlock">>,               \* 162: none failed
                   <<"lock", "reg", "reg", "reg", "unlock">> } \* 162-165
    IN purge \cup { a \o c : a \in purge, c \in create_job_paths }

\* game.py:555-562: the conversion to a backup job
convert_to_backup_paths ==
    { c \o <<"lock", "reg", "unlock">> : c \in get_backup_job_count_paths }

\* ResourceManager.py:211-247
play_voice_paths ==
    { <<"mem">>,                                       \* 213-215: no API key
      <<"file", "file">>,                              \* 221-224: Sound(voice_file)
      <<"file", "vlock", "mem", "file", "vunlock">>,   \* 233-236: Sound(cached file)
      <<"file", "vlock", "mem", "vunlock", "mem">> }   \* 233-246: put

\* game.py:514-705: what run_game calls in its loop
main_loop_paths ==
    clean_failed_jobs_paths \cup get_completed_jobs_paths
      \cup convert_to_backup_paths \cup play_voice_paths
      \cup get_backup_job_paths \cup get_backup_job_count_paths
      \cup create_job_paths \cup get_visible_job_count_paths

\* game.py:192-218: get, choose_efficient, mark_image_ready, task_done
download_worker_paths ==
    { <<"mem", "net">> \o m \o <<"mem">> : m \in mark_image_ready_paths }

\* _voice_worker calling back into the registry inside `with self.voice_lock`
voice_worker_locked_callback ==
    { <<"mem", "file", "vlock", "mem">> \o m \o <<"vunlock", "mem">> :
          m \in mark_audio_ready_paths }
    \cup { <<"mem", "file", "net">> \o m \o <<"mem">> :
             m \in mark_audio_failed_paths }

\* ResourceManager.py:146-209: get, the test for the file, then the cached
\* voice, or the request and the write, or the request that raises; the callback
voice_worker_paths ==
    { <<"mem", "file", "vlock", "mem", "vunlock">> \o m \o <<"mem">> :
          m \in mark_audio_ready_paths }
    \cup { <<"mem", "file", "net", "file", "vlock", "mem", "vunlock">> \o m \o <<"mem">> :
             m \in mark_audio_ready_paths }
    \cup { <<"mem", "file", "net">> \o m \o <<"mem">> :
             m \in mark_audio_failed_paths }

Paths(t) ==
    CASE t = "main" -> main_loop_paths
      [] t = "download" -> download_worker_paths
      [] t = "voice" -> voice_worker_paths

\* the variables of the game, which the steps inside the operations leave alone
game_vars ==
    <<job_queue, failed_words, download_queue, next_id, voice_queue,
      voice_cache, voice_files, items, rects, loaded_words, buf, flash,
      completed_jobs, backup_job, attempts, new_word, returned,
      dl_word, dl_complete, dl_found, vw_word, vw_found, failures,
      vacated, dl_alive, dl_raised, music_stops>>

\* a thread starts one of its operations
Call ==
    /\ \E t \in Threads :
         /\ pc[t] = <<>>
         /\ \E path \in Paths(t) : pc' = [pc EXCEPT ![t] = path]
    /\ UNCHANGED <<job_lock, voice_lock>>
    /\ UNCHANGED game_vars
    /\ UNCHANGED fn_vars

\* threading.Lock: acquire waits until the lock is free
Acquire(lock, t) == [enabled |-> lock = Free, lock |-> t]

\* a thread takes the next step of its operation
Step ==
    /\ \E t \in Threads :
         /\ pc[t] # <<>>
         /\ LET k == Head(pc[t]) IN
            /\ k = "lock" => Acquire(job_lock, t).enabled
            /\ k = "vlock" => Acquire(voice_lock, t).enabled
            /\ job_lock' = CASE k = "lock" -> Acquire(job_lock, t).lock
                              [] k = "unlock" -> Free
                              [] OTHER -> job_lock
            /\ voice_lock' = CASE k = "vlock" -> Acquire(voice_lock, t).lock
                                [] k = "vunlock" -> Free
                                [] OTHER -> voice_lock
         /\ pc' = [pc EXCEPT ![t] = Tail(@)]
    /\ UNCHANGED game_vars
    /\ UNCHANGED fn_vars

LockNext == Call \/ Step

LockSpec == Init /\ [][LockNext]_vars

(***************************************************************************)
(* choose_efficient on its own: qd.get_drawing is the environment, and what *)
(* it yields call by call is drawn at the start.                            *)
(***************************************************************************)
\* game.py:220  tries=3
TRIES == 3
\* game.py:225  sum(len(s) for s in d.strokes) > 20
MIN_POINTS == 20

\* qd.get_drawing raises
Raises == [kind |-> "raise", recognized |-> FALSE, points |-> 0]
\* None
NoDrawing == [kind |-> "none", recognized |-> FALSE, points |-> 0]

\* the stroke-point counts of the drawings explored
PointCounts == {MIN_POINTS, MIN_POINTS + 1}

\* what one call of qd.get_drawing may do
QdResults ==
    {Raises, NoDrawing}
      \cup {[kind |-> "drawing", recognized |-> r, points |-> n] :
               r \in BOOLEAN, n \in PointCounts}

\* the filter without d.recognized
Qualifies_any(d) == d.kind = "drawing" /\ d.points > MIN_POINTS

\* game.py:225  d and d.recognized and sum(len(s) for s in d.strokes) > 20
Qualifies(d) == d.kind = "drawing" /\ d.recognized /\ d.points > MIN_POINTS

\* game.py:222-236 from the fetch after the first n: the value returned and the
\* number of fetches made
RECURSIVE choose_efficient_from(_, _)
choose_efficient_from(results, n) ==
    LET d == results[n + 1] IN
    IF n < TRIES
    THEN IF Qualifies(d)
         THEN [ret |-> d, fetches |-> n + 1]
         ELSE choose_efficient_from(results, n + 1)
    ELSE [ret |-> IF d = Raises THEN NoDrawing ELSE d, fetches |-> n + 1]

\* game.py:220-236
choose_efficient(results) == choose_efficient_from(results, 0)

FetchInit ==
    /\ GameInit
    /\ RenderIdle
    /\ PlaceIdle
    /\ LoopIdle
    /\ RevealIdle
    /\ WorkerIdle
    /\ qd_results \in [1..(TRIES + 1) -> QdResults]
    /\ ce = NoCall

\* the download worker calls choose_efficient(word)
ChooseEfficient ==
    /\ ce = NoCall
    /\ ce' = choose_efficient(qd_results)
    /\ UNCHANGED qd_results
    /\ UNCHANGED render_vars
    /\ UNCHANGED place_vars
    /\ UNCHANGED loop_vars
    /\ UNCHANGED reveal_vars
    /\ UNCHANGED worker_vars
    /\ UNCHANGED game_vars
    /\ UNCHANGED lock_vars

FetchNext == ChooseEfficient

FetchSpec == FetchInit /\ [][FetchNext]_vars

(***************************************************************************)
(* download_worker on one dequeued word, statement by statement, with      *)
(* choose_efficient as above.  dw_marks is the sequence of the payloads    *)
(* passed to mark_image_ready for the word; None is NoDrawing.             *)
(***************************************************************************)
\* the try block raising after mark_image_ready has returned as well
RaisePoints_anywhere == {"print", "fetch", "done"}

\* game.py:200-202: the statements of the try block that come before the call
\* of mark_image_ready; an exception there is caught at 214
RaisePoints == {"print", "fetch"}

WorkerInit ==
    /\ GameInit
    /\ RenderIdle
    /\ PlaceIdle
    /\ LoopIdle
    /\ RevealIdle
    /\ qd_results \in [1..(TRIES + 1) -> QdResults]
    /\ ce = NoCall
    /\ dw_pc = "get"
    /\ dw_marks = <<>>

\* the state download_worker's statements leave alone
worker_frame ==
    <<game_vars, lock_vars, render_vars, place_vars, loop_vars, reveal_vars>>

\* game.py:196-199: word = download_queue.get(timeout=1)
DwGet ==
    /\ dw_pc = "get"
    /\ dw_pc' = "print"
    /\ UNCHANGED <<dw_marks, fetch_vars>>
    /\ UNCHANGED worker_frame

\* game.py:200: print
DwPrint ==
    /\ dw_pc = "print"
    /\ dw_pc' = "fetch"
    /\ UNCHANGED <<dw_marks, fetch_vars>>
    /\ UNCHANGED worker_frame

\* game.py:202: drawing = choose_efficient(word)
DwChooseEfficient ==
    /\ dw_pc = "fetch"
    /\ ce' = choose_efficient(qd_results)
    /\ dw_pc' = "mark"
    /\ UNCHANGED <<dw_marks, qd_results>>
    /\ UNCHANGED worker_frame

\* game.py:205: job_complete = mark_image_ready(word, drawing)
DwMarkImageReady ==
    /\ dw_pc = "mark"
    /\ dw_marks' = Append(dw_marks, ce.ret)
    /\ dw_pc' = "done"
    /\ UNCHANGED fetch_vars
    /\ UNCHANGED worker_frame

\* game.py:207-210: print, download_queue.task_done()
DwTaskDone ==
    /\ dw_pc = "done"
    /\ dw_pc' = "end"
    /\ UNCHANGED <<dw_marks, fetch_vars>>
    /\ UNCHANGED worker_frame

\* game.py:214: a statement of the try block raises
DwRaise ==
    /\ dw_pc \in RaisePoints
    /\ dw_pc' = "except"
    /\ UNCHANGED <<dw_marks, fetch_vars>>
    /\ UNCHANGED worker_frame

\* game.py:215-218: mark_image_ready(word, None), download_queue.task_done()
DwExcept ==
    /\ dw_pc = "except"
    /\ dw_marks' = Append(dw_marks, NoDrawing)
    /\ dw_pc' = "end"
    /\ UNCHANGED fetch_vars
    /\ UNCHANGED worker_frame

WorkerNext ==
    \/ DwGet
    \/ DwPrint
    \/ DwChooseEfficient
    \/ DwMarkImageReady
    \/ DwTaskDone
    \/ DwRaise
    \/ DwExcept

WorkerSpec == WorkerInit /\ [][WorkerNext]_vars

(***************************************************************************)
(* render on its own.  A point is a sequence of coordinates, usable when it *)
(* has two; a stroke a sequence of points; progress is a number of          *)
(* ProgressSteps-ths.  A surface is the record                              *)
(*   [w, h, outline, minx, miny, scale, lines]                              *)
(* of its size, the width of the square outlined on it (0: none), the       *)
(* transform applied to the points (scale = <<size, max(w, h)>>, a          *)
(* fraction), and per stroke the points joined by a line (<<>>: none).  The *)
(* colour is left out.                                                      *)
(***************************************************************************)
\* game.py:640  int(HEIGHT * 0.55), with HEIGHT = 600
BIG_SIZE == 330
\* game.py:48
BIG_W == 6

MaxStrokes == 2        \* strokes of a drawing
MaxStrokePoints == 3   \* points of a stroke
ProgressSteps == 4     \* progress is 0/4, 1/4, ... 4/4

\* the points explored: two usable ones and one with a single coordinate
Points == { <<0, 0>>, <<4, 2>>, <<7>> }

Strokes == UNION {[1..n -> Points] : n \in 0..MaxStrokePoints}

Drawings == UNION {[1..n -> Strokes] : n \in 0..MaxStrokes}

Min(S) == CHOOSE x \in S : \A y \in S : x <= y
Max(S) == CHOOSE x \in S : \A y \in S : x >= y

\* game.py:257-265
decode_stroke(stroke) ==
    LET usable == SelectSeq(stroke, LAMBDA pt : Len(pt) >= 2)
    IN [i \in 1..Len(usable) |-> <<usable[i][1], usable[i][2]>>]

\* game.py:267-271
RECURSIVE all_points(_)
all_points(strks) ==
    IF strks = <<>> THEN <<>>
    ELSE decode_stroke(Head(strks)) \o all_points(Tail(strks))

\* game.py:273-293
get_bounds(strks) ==
    LET pts == all_points(strks) IN
    IF pts = <<>> THEN [minx |-> 0, miny |-> 0, w |-> 1, h |-> 1]
    ELSE LET xs == {pts[i][1] : i \in 1..Len(pts)}
             ys == {pts[i][2] : i \in 1..Len(pts)}
             w == Max(xs) - Min(xs)
             h == Max(ys) - Min(ys)
         IN [minx |-> Min(xs), miny |-> Min(ys),
             w |-> IF w = 0 THEN 1 ELSE w, h |-> IF h = 0 THEN 1 ELSE h]

\* game.py:297-300: the outlined square
Placeholder(size, width) ==
    [w |-> size, h |-> size, outline |-> width, minx |-> 0, miny |-> 0,
     scale |-> <<1, 1>>, lines |-> <<>>]

\* game.py:316  sum(len(decode_stroke(s)) for s in strokes)
RECURSIVE total_points(_)
total_points(strks) ==
    IF strks = <<>> THEN 0
    ELSE Len(decode_stroke(Head(strks))) + total_points(Tail(strks))

\* game.py:317  int(total_points * progress)
points_to_draw(strks, prog) == (total_points(strks) * prog) \div ProgressSteps

\* the partial stroke drawn from its end
Partial_last(decoded, k) == SubSeq(decoded, Len(decoded) - k + 1, Len(decoded))

\* game.py:341  scaled[:points_in_stroke]
Partial(decoded, k) == SubSeq(decoded, 1, k)

\* the loop in which a stroke of fewer than 2 points uses up budget
RECURSIVE draw_strokes_counting(_, _, _)
draw_strokes_counting(strks, points_drawn, budget) ==
    IF strks = <<>> THEN <<>>
    ELSE LET decoded == decode_stroke(Head(strks))
             none == [i \in 1..Len(strks) |-> <<>>]
         IN IF points_drawn + Len(decoded) <= budget
            THEN <<IF Len(decoded) < 2 THEN <<>> ELSE decoded>>
                   \o draw_strokes_counting(Tail(strks), points_drawn + Len(decoded),
                                            budget)
            ELSE IF points_drawn < budget /\ budget - points_drawn >= 2
                 THEN <<Partial(decoded, budget - points_drawn)>> \o Tail(none)
                 ELSE none

\* the loop leaving at the first stroke of fewer than 2 points
RECURSIVE draw_strokes_stopping(_, _, _)
draw_strokes_stopping(strks, points_drawn, budget) ==
    IF strks = <<>> THEN <<>>
    ELSE LET decoded == decode_stroke(Head(strks))
             none == [i \in 1..Len(strks) |-> <<>>]
         IN IF Len(decoded) < 2
            THEN none
            ELSE IF points_drawn + Len(decoded) <= budget
            THEN <<decoded>>
                   \o draw_strokes_stopping(Tail(strks), points_drawn + Len(decoded),
                                            budget)
            ELSE IF points_drawn < budget /\ budget - points_drawn >= 2
                 THEN <<Partial(decoded, budget - points_drawn)>> \o Tail(none)
                 ELSE none

\* game.py:322-346: the loop over the strokes; per stroke, the points joined
RECURSIVE draw_strokes(_, _, _)
draw_strokes(strks, points_drawn, budget) ==
    IF strks = <<>> THEN <<>>
    ELSE LET decoded == decode_stroke(Head(strks))
             none == [i \in 1..Len(strks) |-> <<>>]
         IN IF Len(decoded) < 2
            THEN <<<<>>>> \o draw_strokes(Tail(strks), points_drawn, budget)
            ELSE IF points_drawn + Len(decoded) <= budget
            THEN <<decoded>>
                   \o draw_strokes(Tail(strks), points_drawn + Len(decoded), budget)
            ELSE IF points_drawn < budget /\ budget - points_drawn >= 2
                 THEN <<Partial(decoded, budget - points_drawn)>> \o Tail(none)
                 ELSE none

\* the strokes with a line drawn on a surface
Drawn(strks, lines) ==
    SelectSeq([i \in 1..Len(strks) |-> IF lines[i] # <<>> THEN strks[i] ELSE <<>>],
              LAMBDA st : st # <<>>)

\* render with the bounds of the strokes drawn so far
render_drawn_bounds(strks, size, width, prog) ==
    IF strks = <<>> THEN Placeholder(size, width)
    ELSE LET lines == draw_strokes(strks, 0, points_to_draw(strks, prog))
             b == get_bounds(Drawn(strks, lines))
             m == Max({b.w, b.h})
         IN [w |-> (b.w * size) \div m + width * 2,
             h |-> (b.h * size) \div m + width * 2,
             outline |-> 0, minx |-> b.minx, miny |-> b.miny,
             scale |-> <<size, m>>, lines |-> lines]

\* game.py:295-348
render(strks, size, width, prog) ==
    IF strks = <<>> THEN Placeholder(size, width)
    ELSE LET b == get_bounds(strks)
             m == Max({b.w, b.h})
         IN [w |-> (b.w * size) \div m + width * 2,
             h |-> (b.h * size) \div m + width * 2,
             outline |-> 0, minx |-> b.minx, miny |-> b.miny,
             scale |-> <<size, m>>,
             lines |-> draw_strokes(strks, 0, points_to_draw(strks, prog))]

RenderInit ==
    /\ GameInit
    /\ FetchIdle
    /\ PlaceIdle
    /\ LoopIdle
    /\ RevealIdle
    /\ WorkerIdle
    /\ strokes \in Drawings
    /\ progress = 0
    /\ prior = -1
    /\ surf = NoSurface

\* game.py:640: one frame of the reveal, at some progress
Render ==
    /\ \E prog \in 0..ProgressSteps :
         /\ progress' = prog
         /\ surf' = render(strokes, BIG_SIZE, BIG_W, prog)
    /\ prior' = IF surf = NoSurface THEN -1 ELSE progress
    /\ UNCHANGED strokes
    /\ UNCHANGED fetch_vars
    /\ UNCHANGED place_vars
    /\ UNCHANGED loop_vars
    /\ UNCHANGED reveal_vars
    /\ UNCHANGED worker_vars
    /\ UNCHANGED game_vars
    /\ UNCHANGED lock_vars

RenderNext == Render

RenderSpec == RenderInit /\ [][RenderNext]_vars

(***************************************************************************)
(* random_pos on its own.  A rectangle is [x, y, w, h]; random.randint is   *)
(* the environment, and the candidates it yields are drawn at the start:    *)
(* the stream [switch, before, after] yields position `before` at the draws *)
(* before the switch-th one and `after` from then on.                       *)
(***************************************************************************)
\* game.py:36
WIDTH == 1024
HEIGHT == 600
\* game.py:45
PADDING == 20
\* game.py:408  range(300)
PLACE_TRIES == 300

MaxPlaced == 2     \* rectangles already placed

\* the bounds build_from_job gives an item: a doodle of at most
\* DOODLE_SIZE + 2 * SMALL_W pixels over a caption, or a caption wider than that
ItemBounds == { <<128, 170>>, <<460, 170>> }

\* the range of random.randint(PADDING, limit - extent - PADDING)
RandRange(limit, extent) == PADDING..(limit - extent - PADDING)

\* the candidate positions explored for an item of the given bounds
Candidates(bounds) ==
    ({PADDING, 153, WIDTH - bounds[1] - PADDING} \cap RandRange(WIDTH, bounds[1]))
      \X ({PADDING, HEIGHT - bounds[2] - PADDING} \cap RandRange(HEIGHT, bounds[2]))

\* pygame.Rect(x, y, bw, bh)
Rect(pos, bounds) == [x |-> pos[1], y |-> pos[2], w |-> bounds[1], h |-> bounds[2]]

\* r.inflate(dx, dy) with no growth
Inflate_none(r, dx, dy) == r

\* r.inflate(dx, dy): grown by dx and dy around its centre
Inflate(r, dx, dy) ==
    [x |-> r.x - dx \div 2, y |-> r.y - dy \div 2, w |-> r.w + dx, h |-> r.h + dy]

\* a.colliderect(b)
Collide(a, b) ==
    /\ a.x < b.x + b.w /\ b.x < a.x + a.w
    /\ a.y < b.y + b.h /\ b.y < a.y + a.h

\* the position random.randint yields at draw n
Candidate(stream, n) == IF n < stream.switch THEN stream.before ELSE stream.after

\* game.py:412  all(not r.inflate(PADDING, PADDING).colliderect(o) for o in rects)
Accepted(bounds, placed, pos) ==
    \A i \in 1..Len(placed) :
        ~Collide(Inflate(Rect(pos, bounds), PADDING, PADDING), placed[i])

\* game.py:408-413: the first of the draws lo..hi whose candidate is accepted,
\* or 0 when none is; the draws are gone through in their order, the first half
\* before the second
RECURSIVE first_accepted(_, _, _, _, _)
first_accepted(bounds, placed, stream, lo, hi) ==
    IF lo = hi
    THEN IF Accepted(bounds, placed, Candidate(stream, lo)) THEN lo ELSE 0
    ELSE LET mid == (lo + hi) \div 2 IN
         CHOOSE n \in {IF m # 0 THEN m
                       ELSE first_accepted(bounds, placed, stream, mid + 1, hi) :
                          m \in {first_accepted(bounds, placed, stream, lo, mid)}} :
             TRUE

\* game.py:406-414; random.randint raises ValueError on an empty range
random_pos(bounds, placed, stream) ==
    IF RandRange(WIDTH, bounds[1]) = {} \/ RandRange(HEIGHT, bounds[2]) = {}
    THEN [pos |-> <<0, 0>>, rect |-> Rect(<<0, 0>>, bounds), draws |-> 1,
          raised |-> TRUE]
    ELSE LET n == first_accepted(bounds, placed, stream, 1, PLACE_TRIES) IN
         IF n # 0
         THEN [pos |-> Candidate(stream, n), rect |-> Rect(Candidate(stream, n), bounds),
               draws |-> n, raised |-> FALSE]
         ELSE [pos |-> <<PADDING, PADDING>>,
               rect |-> Rect(<<PADDING, PADDING>>, bounds),
               draws |-> PLACE_TRIES, raised |-> FALSE]

\* the draws at which the stream changes: at once, early, at the last draw,
\* or never
Switches == {1, 2, PLACE_TRIES, PLACE_TRIES + 1}

PlaceInit ==
    /\ GameInit
    /\ FetchIdle
    /\ RenderIdle
    /\ LoopIdle
    /\ RevealIdle
    /\ WorkerIdle
    /\ \E bounds \in ItemBounds :
       \E n \in 0..MaxPlaced :
       \E at \in [1..n -> Candidates(<<128, 170>>)] :
       \E switch \in Switches :
       \E before \in Candidates(bounds) :
       \E after \in Candidates(bounds) :
         place_args = [bounds |-> bounds,
                       rects |-> [i \in 1..n |-> Rect(at[i], <<128, 170>>)],
                       stream |-> [switch |-> switch, before |-> before,
                                   after |-> after]]
    /\ placement = NoPlacement

\* game.py:528, 677: the main loop places an item
RandomPos ==
    /\ placement = NoPlacement
    /\ placement' = random_pos(place_args.bounds, place_args.rects, place_args.stream)
    /\ UNCHANGED place_args
    /\ UNCHANGED fetch_vars
    /\ UNCHANGED render_vars
    /\ UNCHANGED loop_vars
    /\ UNCHANGED reveal_vars
    /\ UNCHANGED worker_vars
    /\ UNCHANGED game_vars
    /\ UNCHANGED lock_vars

PlaceNext == RandomPos

PlaceSpec == PlaceInit /\ [][PlaceNext]_vars

(***************************************************************************)
(* One iteration of run_game's loop, statement by statement.  calls is the *)
(* sequence of the calls of the registry (and of the removal of the        *)
(* revealed item) made since the iteration began, each with the truth      *)
(* value of what it returned.  What the registry holds is left open: every *)
(* call may return either way, and a reveal may be complete or not.        *)
(***************************************************************************)
\* the jobs one call of get_completed_jobs hands out, at most
MaxCompleted == 2

CallOf(fn, ok) == [fn |-> fn, ok |-> ok]

\* the other state, which the statements of the loop are not followed into
other_vars ==
    <<game_vars, lock_vars, fetch_vars, render_vars, place_vars, reveal_vars,
      worker_vars>>

LoopInit ==
    /\ GameInit
    /\ FetchIdle
    /\ RenderIdle
    /\ PlaceIdle
    /\ RevealIdle
    /\ WorkerIdle
    /\ loop_pc = "clean"
    /\ calls = <<>>
    /\ loop_flash = FALSE
    /\ loop_left = 0
    /\ loop_attempts = 0

\* create_job straight after get_backup_job, the pool not counted
AfterGetBackupJob_create == "create"

\* game.py:684-686: after the promotion the backup pool is counted
AfterGetBackupJob == "count"

\* game.py:518, 160-165: the purge, which finds some jobs failed
LoopCleanFailedJobs ==
    /\ loop_pc = "clean"
    /\ calls' = <<CallOf("clean_failed_jobs", FALSE)>>
    /\ \E n \in 0..MaxFailures :
         /\ loop_left' = n
         /\ loop_pc' = IF n = 0 THEN "completed" ELSE "replace"
    /\ loop_attempts' = 0
    /\ UNCHANGED loop_flash
    /\ UNCHANGED other_vars

\* game.py:168-175: one try at a replacement for a failed job
LoopReplace ==
    /\ loop_pc = "replace"
    /\ \E ok \in BOOLEAN :
         LET done == ok \/ loop_attempts + 1 = REPLACE_ATTEMPTS IN
         /\ calls' = Append(calls, CallOf("create_job", ok))
         /\ loop_attempts' = IF done THEN 0 ELSE loop_attempts + 1
         /\ loop_left' = IF done THEN loop_left - 1 ELSE loop_left
         /\ loop_pc' = IF done /\ loop_left = 1 THEN "completed" ELSE "replace"
    /\ UNCHANGED loop_flash
    /\ UNCHANGED other_vars

\* game.py:521: completed_jobs = get_completed_jobs(visible_only=True)
LoopGetCompletedJobs ==
    /\ loop_pc = "completed"
    /\ \E n \in 0..MaxCompleted :
         /\ calls' = Append(calls, CallOf("get_completed_jobs", n > 0))
         /\ loop_left' = n
         /\ loop_pc' = IF n = 0 THEN "events" ELSE "jobs"
    /\ UNCHANGED <<loop_flash, loop_attempts>>
    /\ UNCHANGED other_vars

\* game.py:522-562: one completed job: added (or passed over), added and
\* revealed at once, or looked at for the conversion to a backup job
LoopJob ==
    /\ loop_pc = "jobs"
    /\ \/ /\ calls' = calls                                    \* 522-533
          /\ loop_left' = loop_left - 1
          /\ UNCHANGED loop_flash
       \/ /\ ~loop_flash                                       \* 534-554
          /\ calls' = calls
          /\ loop_left' = 0
          /\ loop_flash' = TRUE
       \/ /\ \E ok \in BOOLEAN :                               \* 555-562
               calls' = Append(calls, CallOf("get_backup_job_count", ok))
          /\ loop_left' = loop_left - 1
          /\ UNCHANGED loop_flash
    /\ loop_pc' = IF loop_left' = 0 THEN "events" ELSE "jobs"
    /\ UNCHANGED loop_attempts
    /\ UNCHANGED other_vars

\* game.py:564-628: the events, which may start a reveal when none is active
LoopEvents ==
    /\ loop_pc = "events"
    /\ loop_flash' \in (IF loop_flash THEN {TRUE} ELSE BOOLEAN)
    /\ loop_pc' = IF loop_flash' THEN "reveal" ELSE "tick"
    /\ UNCHANGED <<calls, loop_left, loop_attempts>>
    /\ UNCHANGED other_vars

\* game.py:629-662: one frame of the reveal, which is over or not
LoopReveal ==
    /\ loop_pc = "reveal"
    /\ \E over \in BOOLEAN : loop_pc' = IF over THEN "remove" ELSE "tick"
    /\ UNCHANGED <<calls, loop_flash, loop_left, loop_attempts>>
    /\ UNCHANGED other_vars

\* game.py:663-669: the revealed item is removed
LoopRemove ==
    /\ loop_pc = "remove"
    /\ calls' = Append(calls, CallOf("items.pop", TRUE))
    /\ loop_pc' = "backup"
    /\ UNCHANGED <<loop_flash, loop_left, loop_attempts>>
    /\ UNCHANGED other_vars

\* game.py:672-682: backup_job = get_backup_job(), and its promotion
LoopGetBackupJob ==
    /\ loop_pc = "backup"
    /\ \E ok \in BOOLEAN : calls' = Append(calls, CallOf("get_backup_job", ok))
    /\ loop_pc' = AfterGetBackupJob
    /\ UNCHANGED <<loop_flash, loop_left, loop_attempts>>
    /\ UNCHANGED other_vars

\* game.py:686-689, 696-697: backup_count = get_backup_job_count()
LoopGetBackupJobCount ==
    /\ loop_pc = "count"
    /\ \E ok \in BOOLEAN :
         /\ calls' = Append(calls, CallOf("get_backup_job_count", ok))
         /\ loop_pc' = IF ok THEN "visible" ELSE "create"
    /\ loop_attempts' = 0
    /\ UNCHANGED <<loop_flash, loop_left>>
    /\ UNCHANGED other_vars

\* game.py:690-695: one try at a new backup job
LoopCreateJob ==
    /\ loop_pc = "create"
    /\ \E ok \in BOOLEAN :
         LET done == ok \/ loop_attempts + 1 = REPLACE_ATTEMPTS IN
         /\ calls' = Append(calls, CallOf("create_job", ok))
         /\ loop_attempts' = IF done THEN 0 ELSE loop_attempts + 1
         /\ loop_pc' = IF done THEN "visible" ELSE "create"
    /\ UNCHANGED <<loop_flash, loop_left>>
    /\ UNCHANGED other_vars

\* game.py:699-702: visible_count = get_visible_job_count(); flash = None
LoopGetVisibleJobCount ==
    /\ loop_pc = "visible"
    /\ \E ok \in BOOLEAN :
         calls' = Append(calls, CallOf("get_visible_job_count", ok))
    /\ loop_flash' = FALSE
    /\ loop_pc' = "tick"
    /\ UNCHANGED <<loop_left, loop_attempts>>
    /\ UNCHANGED other_vars

\* game.py:704-705, 707-737: the frame ends and the loop starts over
LoopTick ==
    /\ loop_pc = "tick"
    /\ loop_pc' = "clean"
    /\ UNCHANGED <<calls, loop_flash, loop_left, loop_attempts>>
    /\ UNCHANGED other_vars

LoopNext ==
    \/ LoopCleanFailedJobs
    \/ LoopReplace
    \/ LoopGetCompletedJobs
    \/ LoopJob
    \/ LoopEvents
    \/ LoopReveal
    \/ LoopRemove
    \/ LoopGetBackupJob
    \/ LoopGetBackupJobCount
    \/ LoopCreateJob
    \/ LoopGetVisibleJobCount
    \/ LoopTick

LoopSpec == LoopInit /\ [][LoopNext]_vars

(***************************************************************************)
(* One reveal, frame by frame.  Times are in milliseconds and draw_speed   *)
(* is in tenths, so FLASH_MS / draw_speed is 10 * FLASH_MS / f.draw_speed;  *)
(* a position in the pen sound is the fraction num / den of a millisecond. *)
(***************************************************************************)
SOUND_LENGTH_MS == 33000

\* random.uniform(0.8, 1.2), in tenths
RevealSpeeds == 8..12

\* now - (now of the iteration before): clock.tick(60) makes it 16 ms at
\* least, and an iteration may take any longer
RevealTicks == {16, 1000, 6000}

\* random.uniform(lo, hi)
Uniform(lo, hi) == {lo, (lo + hi) \div 2, hi}

\* max_start with the drawing time not taken off the length of the sample
max_start_whole(draw_speed) ==
    [num |-> SOUND_LENGTH_MS * draw_speed, den |-> draw_speed]

\* game.py:544-545, 605-607: max(0, SOUND_LENGTH_MS / 1000.0 - actual_duration)
max_start(draw_speed) ==
    [num |-> Max({0, SOUND_LENGTH_MS * draw_speed - 10 * FLASH_MS}),
     den |-> draw_speed]

\* game.py:632, 640-652: the frame of the reveal, with drawing_prog as the
\* fraction prog / (10 * FLASH_MS)
RevealFrame(f) ==
    [reveal |-> TRUE, elapsed |-> f.elapsed, draw_speed |-> f.draw_speed,
     prog |-> Min({10 * FLASH_MS, f.elapsed * f.draw_speed})]

\* game.py:654-659
RevealStopMusic(f) ==
    IF DrawingDone(f) /\ ~f.music_stopped THEN [f EXCEPT !.music_stopped = TRUE] ELSE f

\* game.py:628-705: the reveal's part of an iteration, elapsed being up to date
RevealStep(f) ==
    [frame |-> RevealFrame(f),
     flash |-> IF TotalDone(f) THEN NoFlash ELSE RevealStopMusic(f)]

RevealInit ==
    /\ GameInit
    /\ FetchIdle
    /\ RenderIdle
    /\ PlaceIdle
    /\ LoopIdle
    /\ RevealIdle
    /\ WorkerIdle

\* game.py:534-553, 594-617, 628-705: an iteration that activates a reveal, of
\* an item whose drawing has strokes or has none
RevealActivate ==
    /\ rv_flash = NoFlash
    /\ \E draw_speed \in RevealSpeeds :
         LET f == [idx |-> 0, draw_speed |-> draw_speed, elapsed |-> 0,
                   music_stopped |-> FALSE]
         IN /\ rv_flash' = RevealStep(f).flash
            /\ rv_frame' = RevealStep(f).frame
            /\ \/ \E num \in Uniform(0, max_start(draw_speed).num) :
                    rv_start' = [num |-> num, den |-> draw_speed]
               \/ rv_start' = NoStart
    /\ UNCHANGED <<game_vars, lock_vars, fetch_vars, render_vars, place_vars,
                   loop_vars, worker_vars>>

\* game.py:515, 628-705: a later iteration of the reveal
RevealTick ==
    /\ rv_flash # NoFlash
    /\ \E dt \in RevealTicks :
         LET f == Advance(rv_flash, dt)
         IN /\ rv_flash' = RevealStep(f).flash
            /\ rv_frame' = RevealStep(f).frame
    /\ UNCHANGED rv_start
    /\ UNCHANGED <<game_vars, lock_vars, fetch_vars, render_vars, place_vars,
                   loop_vars, worker_vars>>

\* game.py:707-737: an iteration with no reveal shows the items
RevealNone ==
    /\ rv_flash = NoFlash
    /\ rv_frame # NoFrame
    /\ rv_frame' = NoFrame
    /\ UNCHANGED <<rv_flash, rv_start>>
    /\ UNCHANGED <<game_vars, lock_vars, fetch_vars, render_vars, place_vars,
                   loop_vars, worker_vars>>

RevealNext == RevealActivate \/ RevealTick \/ RevealNone

\* the loop goes on iterating while running
RevealSpec == RevealInit /\ [][RevealNext]_vars /\ WF_vars(RevealTick)

(***************************************************************************)
(* Properties                                                              *)
(***************************************************************************)
Ids(s) == {s[i].id : i \in 1..Len(s)}

Words(s) == {s[i].word : i \in 1..Len(s)}

JobsOf(jq, word) == {i \in 1..Len(jq) : jq[i].word = word}

\* C1: create_job on a word that is already in the registry or excluded returns
\* False and changes neither the registry, the exclusion set nor the fetch queue;
\* on any other word it appends exactly one Pending job and enqueues exactly one
\* image-fetch request; so the registry never holds two jobs for one word.
C1_CreateJobOnce ==
    /\ \A word \in Pool, visible \in BOOLEAN :
         LET c == create_job(Registry, word, visible) IN
         IF InRegistry(job_queue, word) \/ word \in failed_words
         THEN ~c.ret /\ c.reg = Registry
         ELSE /\ c.ret
              /\ c.reg.job_queue =
                     Append(job_queue, DownloadJob(word, visible, next_id))
              /\ c.reg.download_queue = Append(download_queue, word)
              /\ c.reg.failed_words = failed_words
    /\ \A word \in Pool : Cardinality(JobsOf(job_queue, word)) <= 1

\* the refill loop drew a word that has a job, create_job rejected every draw,
\* and the registry still holds exactly that one job for it
C1_Witness ==
    /\ attempts = REPLACE_ATTEMPTS
    /\ Cardinality(JobsOf(job_queue, new_word)) = 1

\* C2: get_completed_jobs removes exactly the complete (and, with visible_only,
\* visible) jobs and returns them in one step; no job is returned by two calls.
C2_TakenOnce ==
    /\ \A visible_only \in BOOLEAN :
         LET g == get_completed_jobs(job_queue, visible_only)
             done == {i \in 1..Len(job_queue) :
                        /\ is_complete(job_queue[i])
                        /\ visible_only => job_queue[i].visible}
         IN /\ Range(g.completed) = {job_queue[i] : i \in done}
            /\ Len(g.completed) = Cardinality(done)
            /\ Range(g.jq) = {job_queue[i] : i \in (1..Len(job_queue)) \ done}
            /\ Len(g.jq) = Len(job_queue) - Cardinality(done)
    /\ \A i, j \in 1..Len(returned) : returned[i] = returned[j] => i = j
    /\ Ids(completed_jobs) \cap Ids(job_queue) = {}

\* two calls have returned jobs while both workers were delivering signals
C2_Witness ==
    /\ Len(returned) >= 2
    /\ Len(completed_jobs) = 1
    /\ download_queue # <<>>
    /\ voice_queue # <<>>

\* C3: whichever of the image and audio signals of a word comes first, a job is
\* handed out by get_completed_jobs or get_backup_job only with image_ready and
\* audio_ready set and neither failure flag set.
C3_HandedOutComplete ==
    LET Ready(job) == /\ job.image_ready /\ job.audio_ready
                      /\ ~job.image_failed /\ ~job.audio_failed
    IN /\ \A i \in 1..Len(completed_jobs) : Ready(completed_jobs[i])
       /\ backup_job # NoJob => Ready(backup_job)
       /\ \A visible_only \in BOOLEAN :
            \A job \in Range(get_completed_jobs(job_queue, visible_only).completed) :
                Ready(job)
       /\ LET b == get_backup_job(job_queue).job IN b # NoJob => Ready(b)
       /\ \A i \in 1..Len(items) : items[i].drawing # None

\* a job was handed out whose audio signal came first (its image signal found
\* the job complete)
C3_Witness ==
    /\ dl_complete
    /\ \E i \in 1..Len(completed_jobs) : completed_jobs[i].word = dl_word

\* a job was handed out whose image signal came first
C3_ImageFirst ==
    /\ dl_found /\ ~dl_complete
    /\ \E i \in 1..Len(completed_jobs) : completed_jobs[i].word = dl_word


\* occurrences of a word in a queue
Count(q, word) == Cardinality({i \in 1..Len(q) : q[i] = word})

\* a step of the main loop: it takes nothing from the workers' queues
MainLoopStep ==
    /\ Len(download_queue') >= Len(download_queue)
    /\ Len(voice_queue') >= Len(voice_queue)

\* C4: a failure signal leaves the job failed; the next clean_failed_jobs removes
\* every failed job and excludes its word; the exclusion set only grows; an
\* excluded word is rejected by create_job, has no job and is never fetched again.
C4_FailedExcluded ==
    /\ [](\A i \in 1..Len(job_queue) :
             LET word == job_queue[i].word IN
             /\ has_failed(mark_image_ready(job_queue, word, None).jq[i])
             /\ has_failed(mark_audio_failed(job_queue, word).jq[i]))
    /\ [](\A word \in failed_words :
             /\ ~InRegistry(job_queue, word)
             /\ \A visible \in BOOLEAN :
                  LET c == create_job(Registry, word, visible)
                  IN ~c.ret /\ c.reg = Registry)
    /\ [][/\ failed_words \subseteq failed_words'
          /\ \A word \in failed_words :
               Count(download_queue', word) <= Count(download_queue, word)
          /\ MainLoopStep =>
               /\ \A i \in 1..Len(job_queue) :
                    has_failed(job_queue[i]) =>
                        /\ job_queue[i].word \in failed_words'
                        /\ job_queue[i].id \notin Ids(job_queue')
               /\ \A i \in 1..Len(job_queue') : ~has_failed(job_queue'[i])]_vars

\* an excluded word was drawn again for the backup pool and every draw rejected
C4_Witness ==
    /\ attempts = REPLACE_ATTEMPTS
    /\ new_word \in failed_words
    /\ ~InRegistry(job_queue, new_word)
    /\ new_word \notin Range(download_queue)

\* C5: a mark_image_ready, mark_audio_ready or mark_audio_failed call for a word
\* that has no job in the registry changes neither the registry nor the
\* exclusion set.
C5_StaleMarkNoOp ==
    /\ [](\A word \in Pool :
             ~InRegistry(job_queue, word) =>
                 /\ \A data \in {Drawing, None} :
                      mark_image_ready(job_queue, word, data) =
                          [jq |-> job_queue, ret |-> FALSE, found |-> FALSE]
                 /\ mark_audio_ready(job_queue, word).jq = job_queue
                 /\ mark_audio_failed(job_queue, word).jq = job_queue)
    /\ [][/\ (/\ download_queue # <<>>
              /\ download_queue' = Tail(download_queue)
              /\ ~InRegistry(job_queue, Head(download_queue)))
             => job_queue' = job_queue /\ failed_words' = failed_words
          /\ (/\ voice_queue # <<>>
              /\ voice_queue' = Tail(voice_queue)
              /\ ~InRegistry(job_queue, Head(voice_queue)))
             => job_queue' = job_queue /\ failed_words' = failed_words]_vars

\* the image signal of a purged, excluded word arrived and found no job
C5_Witness ==
    /\ dl_word \in failed_words
    /\ ~dl_found
    /\ ~InRegistry(job_queue, dl_word)

\* the audio signal of a purged, excluded word arrived and found no job
C5_AudioStale ==
    /\ vw_word \in failed_words
    /\ ~vw_found
    /\ ~InRegistry(job_queue, vw_word)

\* C6: at the end of every main-loop iteration at most 5 items are on screen.
C6_PoolBound == Len(items) <= MAX_ITEMS

\* the screen is full again after a reveal whose slot a backup job took
C6_Witness ==
    /\ Len(items) = MAX_ITEMS
    /\ backup_job # NoJob
    /\ backup_job.id \in Ids(items)


\* The items on screen and the visible jobs still in the registry never
\* number more than five together, so the loop over completed_jobs never
\* meets a job while five items are on screen (game.py:555-562 is not reached).
VisibleSlotsBound ==
    Len(items) + get_visible_job_count(job_queue) <= MAX_ITEMS

\* C8: with no reveal active, a typed buffer equal to the word of a displayed
\* item (after a letter, a space, a backspace or the arrival of the item) has
\* activated the reveal of that item: the buffer never rests on a displayed word.
C8_ExactMatchReveals ==
    ~(/\ flash = NoFlash
      /\ buf # <<>>
      /\ \E i \in 1..Len(items) : items[i].word = buf)

\* C9: an active reveal is never replaced by another activation: while a reveal
\* is in its Drawing or Holding phase it stays the reveal of the same item, with
\* the same speed, and only its elapsed time grows.
C9_OneReveal ==
    [][(flash # NoFlash /\ flash' # NoFlash /\ flash' # flash) =>
          /\ flash'.item = flash.item
          /\ flash'.idx = flash.idx
          /\ flash'.draw_speed = flash.draw_speed
          /\ flash'.elapsed > flash.elapsed]_vars

\* a job was taken and shown by an iteration that found the reveal active
C9_Witness ==
    /\ flash # NoFlash
    /\ flash.elapsed > 0
    /\ completed_jobs # <<>>
    /\ Ids(completed_jobs) \subseteq Ids(items)

\* C10: when a reveal completes, the item that leaves the screen is the reveal's
\* target and no other; get_backup_job is consulted, and the job it yields is
\* shown at the vacated index, so that as many items are on screen as before the
\* removal (the items added by the same iteration's completed jobs aside).
C10_RevealCompletion ==
    [][(flash # NoFlash /\ flash' = NoFlash) =>
          LET b == get_backup_job(job_queue).job
              loaded == Cardinality(Ids(items') \cap Ids(completed_jobs'))
          IN /\ flash.item \in Range(items)
             /\ flash.item \notin Range(items')
             /\ Range(items) \ {flash.item} \subseteq Range(items')
             /\ backup_job' = b
             /\ IF b # NoJob
                THEN /\ items'[flash.idx + 1] = build_from_job(b)
                     /\ Len(items') - loaded = Len(items)
                ELSE Len(items') - loaded = Len(items) - 1]_vars

\* a backup job stands in the slot of a revealed item that was not the last one
C10_Witness ==
    /\ flash = NoFlash
    /\ backup_job # NoJob
    /\ \E i \in 1..(Len(items) - 1) : items[i].id = backup_job.id

\* nothing is being fetched and nothing waits to be taken by the main loop:
\* both queues are empty, every job in the registry is complete, none of them
\* is visible, and no reveal is active
Settled ==
    /\ download_queue = <<>>
    /\ voice_queue = <<>>
    /\ flash = NoFlash
    /\ \A i \in 1..Len(job_queue) :
         is_complete(job_queue[i]) /\ ~job_queue[i].visible

\* C11: a slot vacated by a reveal that found no backup is filled by a job that
\* completes later: once every fetch has succeeded and the main loop has taken
\* all it takes, as many items are on screen as before that reveal.
C11_SlotRefilled == (failures = 0 /\ Settled) => vacated = 0

\* Only visible jobs are ever added to the screen outside a reveal completion:
\* with no visible job in the registry the number of items never grows.
ItemsNeverRegrow ==
    [][get_visible_job_count(job_queue) = 0 => Len(items') <= Len(items)]_vars

\* a step that completes a reveal with 5 items on screen and, as the only backup
\* job of the registry, one that is ready
FullPoolCompletion ==
    /\ flash # NoFlash
    /\ flash' = NoFlash
    /\ Len(items) = MAX_ITEMS
    /\ get_backup_job_count(job_queue) = 1
    /\ get_backup_job(job_queue).job # NoJob

\* such a step removes the revealed item and shows the backup, now visible, in
\* its place, so that 5 items are on screen again
PromotedInPlace ==
    LET b == get_backup_job(job_queue).job
    IN /\ flash.item \notin Range(items')
       /\ Len(items') = MAX_ITEMS
       /\ b.visible
       /\ backup_job' = b
       /\ items'[flash.idx + 1] = build_from_job(b)

\* exactly one backup job has been created: the registry holds one backup job,
\* the one constructed by this step
OneNewBackup ==
    /\ next_id' = next_id + 1
    /\ get_backup_job_count(job_queue') = 1
    /\ \E i \in 1..Len(job_queue') :
         /\ job_queue'[i].id = next_id
         /\ ~job_queue'[i].visible
         /\ job_queue'[i].word = new_word'

Unsignalled(job) == ~job.audio_ready /\ ~job.audio_failed

\* C13: every job created by create_job gets one of the audio signals: as long
\* as a job has had neither, the request that will produce it (the job's word,
\* as the voice key) is waiting in the voice queue.
C13_AudioSignalled ==
    \A i \in 1..Len(job_queue) :
        Unsignalled(job_queue[i]) =>
            VoiceKey(job_queue[i].word) \in Range(voice_queue)

\* A job that has had no audio signal and has no request in the voice queue
\* never gets one: as long as it is in the registry it has neither signal.
SilentJobStaysSilent ==
    [][\A i \in 1..Len(job_queue) :
          (/\ Unsignalled(job_queue[i])
           /\ VoiceKey(job_queue[i].word) \notin Range(voice_queue))
          => \A k \in 1..Len(job_queue') :
                 job_queue'[k].id = job_queue[i].id => Unsignalled(job_queue'[k])]_vars

\* C14: an exception raised while download_worker handles a word does not end
\* the thread: the word is reported by mark_image_ready(word, None), so that
\* its job, if it has one, is image-failed, and the thread stays able to
\* take the next request whenever there is one.
C14_WorkerSurvives ==
    /\ [](dl_alive /\ (download_queue # <<>> => ENABLED DownloadWorker))
    /\ [][(download_queue # <<>> /\ download_queue' = Tail(download_queue)
            /\ dl_raised')
           => LET word == Head(download_queue) IN
              /\ dl_alive'
              /\ dl_word' = word
              /\ job_queue' = mark_image_ready(job_queue, word, None).jq
              /\ \A i \in 1..Len(job_queue') :
                   job_queue'[i].word = word =>
                       job_queue'[i].image_failed /\ has_failed(job_queue'[i])]_vars

\* the handling of a word has just raised, its job is image-failed, and the
\* thread is alive with further requests to take
C14_Witness ==
    /\ dl_raised
    /\ dl_alive
    /\ download_queue # <<>>
    /\ \E i \in 1..Len(job_queue) :
         job_queue[i].word = dl_word /\ job_queue[i].image_failed

\* the step thread t takes next, if it is inside an operation
NextStep(t) == IF pc[t] = <<>> THEN "idle" ELSE Head(pc[t])

\* thread t is inside a `with job_lock` block: of the lock steps its path has
\* left, the first is the release
RECURSIVE InsideLock(_)
InsideLock(path) ==
    IF path = <<>> THEN FALSE
    ELSE IF Head(path) = "unlock" THEN TRUE
    ELSE IF Head(path) = "lock" THEN FALSE
    ELSE InsideLock(Tail(path))

\* C15: every read or write of job_queue and failed_words is made by a thread
\* that holds job_lock, whichever thread it is; the lock is held by exactly
\* the thread inside a `with job_lock` block, so no two threads are inside
\* registry operations at once.
C15_RegistryUnderLock ==
    /\ \A t \in Threads : NextStep(t) = "reg" => job_lock = t
    /\ \A t \in Threads : InsideLock(pc[t]) <=> job_lock = t
    /\ \A t1, t2 \in Threads :
         InsideLock(pc[t1]) /\ InsideLock(pc[t2]) => t1 = t2

\* the image worker is about to write the registry under the lock while the
\* main loop and the voice callback both wait to enter their own operations
C15_Witness ==
    /\ job_lock = "download"
    /\ NextStep("download") = "reg"
    /\ NextStep("main") = "lock"
    /\ NextStep("voice") = "lock"

\* C16: no thread does file or network I/O while it holds job_lock.
C16_NoIOUnderLock ==
    \A t \in Threads : NextStep(t) \in {"file", "net"} => job_lock # t

\* C17: the main loop's thread does no file or network I/O.
C17_MainLoopNoIO == NextStep("main") \notin {"file", "net"}

\* the jobs of registry state r2 that r1 did not have
NewJobs(r1, r2) == {i \in 1..Len(r2.job_queue) : r2.job_queue[i].id >= r1.next_id}

\* the registry after the purge of clean_failed_jobs, before the replacements
Purged ==
    [Registry EXCEPT
       !.job_queue = Filter(@, [i \in 1..Len(@) |-> ~has_failed(@[i])]),
       !.failed_words = @ \cup Words(FailedJobs(job_queue))]

\* C18: clean_failed_jobs removes every failed job and excludes its word, and
\* keeps the other jobs; for a removed job it draws at most 10 times, stops at
\* the first draw create_job accepts, and creates at most one job, with the
\* visible flag of the failed one; when no draw is accepted it creates nothing.
C18_CleanFailedJobs ==
    /\ \A streams \in [1..Len(FailedJobs(job_queue)) -> Streams] :
         LET r == clean_failed_jobs(Registry, streams)
             failed == FailedJobs(job_queue)
             new == NewJobs(Registry, r)
         IN /\ \A i \in 1..Len(job_queue) :
                 IF has_failed(job_queue[i])
                 THEN /\ job_queue[i].id \notin Ids(r.job_queue)
                      /\ job_queue[i].word \in r.failed_words
                 ELSE job_queue[i] \in Range(r.job_queue)
            /\ r.failed_words = failed_words \cup Words(failed)
            /\ Len(r.job_queue) = Len(job_queue) - Len(failed) + Cardinality(new)
            /\ r.next_id = next_id + Cardinality(new)
            /\ \A visible \in BOOLEAN :
                 Cardinality({i \in new : r.job_queue[i].visible = visible})
                     <= Cardinality({k \in 1..Len(failed) : failed[k].visible = visible})
    /\ \A k \in 1..Len(FailedJobs(job_queue)) : \A stream \in Streams :
         LET visible == FailedJobs(job_queue)[k].visible
             c == create_replacement(Purged, visible, stream, 0)
             new == NewJobs(Purged, c.reg)
         IN /\ c.attempts <= REPLACE_ATTEMPTS
            /\ \A n \in 0..(c.attempts - 1) :
                 ~create_job(Purged, Draw(stream, n), visible).ret
            /\ IF c.attempts < REPLACE_ATTEMPTS
               THEN /\ c.reg = create_job(Purged, Draw(stream, c.attempts), visible).reg
                    /\ Cardinality(new) = 1
                    /\ \A i \in new :
                         /\ c.reg.job_queue[i].visible = visible
                         /\ c.reg.job_queue[i].word = Draw(stream, c.attempts)
               ELSE c.reg = Purged

\* the failed backup job was removed, its word excluded, and the one job
\* created in its place is a backup job again
C18_Witness ==
    /\ failed_words = BackupWords
    /\ next_id = MAX_ITEMS + 3
    /\ get_backup_job_count(job_queue) = 1
    /\ \E i \in 1..Len(job_queue) :
         ~job_queue[i].visible /\ job_queue[i].id = next_id - 1

\* the complete jobs of the backup pool
ReadyBackups(jq) == {i \in 1..Len(jq) : is_complete(jq[i]) /\ ~jq[i].visible}

\* C19: get_backup_job removes one job that is complete and not visible from
\* the registry and returns it with visible set; the other jobs stay; when no
\* job is complete and not visible it returns None and the registry is as it
\* was.  The job returned was never visible, pending or failed.
C19_GetBackupJob ==
    LET b == get_backup_job(job_queue) IN
    IF ReadyBackups(job_queue) = {}
    THEN b.job = NoJob /\ b.jq = job_queue
    ELSE /\ b.job # NoJob
         /\ b.job.visible
         /\ \E i \in ReadyBackups(job_queue) :
              /\ b.job = [job_queue[i] EXCEPT !.visible = TRUE]
              /\ b.jq = RemoveAt(job_queue, i)
              /\ job_queue[i].image_ready /\ job_queue[i].audio_ready
              /\ ~has_failed(job_queue[i])
         /\ Len(b.jq) = Len(job_queue) - 1
         /\ b.job.id \notin Ids(b.jq)

\* a reveal ended while the backup job was still pending: get_backup_job
\* returned None and left that job in the registry, and no refill has ever run
C19_Witness ==
    /\ flash = NoFlash
    /\ vacated > Len(items)
    /\ backup_job = NoJob
    /\ \E i \in 1..Len(job_queue) :
         /\ ~job_queue[i].visible
         /\ ~is_complete(job_queue[i])
    /\ new_word = NoWord

\* C20: for a job in the registry, mark_image_ready with None sets image_failed
\* and leaves image_ready and the stored data as they were, and with a payload
\* sets image_ready and stores the payload; nothing else changes; the value
\* returned is whether the job is complete after the call.  The job the
\* download worker reports a failure for has image_ready false.
C20_MarkImageReady ==
    /\ [](\A i \in 1..Len(job_queue) : \A payload \in {None, Drawing} :
             LET job == job_queue[i]
                 m == mark_image_ready(job_queue, job.word, payload)
             IN /\ m.found
                /\ m.jq = [job_queue EXCEPT ![i] = m.jq[i]]
                /\ m.jq[i] = IF payload = None
                              THEN [job EXCEPT !.image_failed = TRUE]
                              ELSE [job EXCEPT !.image_ready = TRUE,
                                               !.image_data = payload]
                /\ m.ret = is_complete(m.jq[i])
                /\ m.ret = (/\ payload # None
                            /\ job.audio_ready
                            /\ ~job.image_failed /\ ~job.audio_failed))
    /\ [][(download_queue # <<>> /\ download_queue' = Tail(download_queue) /\ dl_found'
              /\ failures' = failures + 1) =>
             \A i \in 1..Len(job_queue') :
                 job_queue'[i].word = dl_word' =>
                     job_queue'[i].image_failed /\ ~job_queue'[i].image_ready]_vars

\* the download worker reported a failed fetch for a job whose audio was ready
C20_Witness ==
    /\ dl_found
    /\ ~dl_complete
    /\ ~dl_raised
    /\ \E i \in 1..Len(job_queue) :
         /\ job_queue[i].word = dl_word
         /\ job_queue[i].image_failed
         /\ ~job_queue[i].image_ready
         /\ job_queue[i].audio_ready

\* C21: choose_efficient makes at most 3 filtered fetches and returns the first
\* drawing that is recognized and has more than 20 stroke points; if none of
\* the 3 is one (a fetch that raises is none) it makes one more fetch and
\* returns what that yields, or None if it raises; at most 4 fetches in all.
C21_ChooseEfficient ==
    ce # NoCall =>
        LET good == {i \in 1..3 : /\ qd_results[i].kind = "drawing"
                                  /\ qd_results[i].recognized
                                  /\ qd_results[i].points > 20}
        IN /\ ce.fetches <= 4
           /\ IF good # {}
              THEN /\ ce.fetches \in good
                   /\ \A i \in good : ce.fetches <= i
                   /\ ce.ret = qd_results[ce.fetches]
              ELSE /\ ce.fetches = 4
                   /\ ce.ret = IF qd_results[4].kind = "raise"
                               THEN NoDrawing ELSE qd_results[4]

\* two fetches raised, the third yielded an unrecognized drawing, and the
\* fourth, unfiltered, one of 20 points only, which was returned
C21_Witness ==
    /\ ce # NoCall
    /\ qd_results[1].kind = "raise"
    /\ qd_results[2].kind = "raise"
    /\ qd_results[3].kind = "drawing" /\ ~qd_results[3].recognized
    /\ ce.fetches = 4
    /\ ce.ret.kind = "drawing" /\ ce.ret.points = 20

\* the number of usable points of stroke i of the drawing
NPoints(i) == Len(decode_stroke(strokes[i]))

\* the point budget of the latest render
Budget == (total_points(strokes) * progress) \div ProgressSteps

RECURSIVE SumTo(_, _)
SumTo(f, n) == IF n = 0 THEN 0 ELSE f[n] + SumTo(f, n - 1)

\* the points of the strokes before stroke i
PointsBefore(i) == SumTo([j \in 1..Len(strokes) |-> NPoints(j)], i - 1)

\* the points of the strokes before stroke i that have at least 2 points
LinePointsBefore(i) ==
    SumTo([j \in 1..Len(strokes) |-> IF NPoints(j) >= 2 THEN NPoints(j) ELSE 0], i - 1)

\* the number of points joined by lines on the latest surface
PointsDrawn == SumTo([j \in 1..Len(strokes) |-> Len(surf.lines[j])], Len(strokes))

\* what is drawn of stroke i when `before` points of the budget are used up:
\* the whole stroke if it fits, its first k points if it straddles the budget
\* with k >= 2 points inside, nothing otherwise
DrawnWithin(i, before) ==
    LET decoded == decode_stroke(strokes[i])
        k == Budget - before
    IN IF before + NPoints(i) <= Budget THEN decoded
       ELSE IF before < Budget /\ k >= 2 THEN SubSeq(decoded, 1, k)
       ELSE <<>>

\* C22 as stated: the budget is floor(progress x total points); the strokes use
\* it up in their order, each drawn whole if it fits in what is left, by its
\* first k points if it straddles the budget and k >= 2, not at all after that;
\* no more points are drawn than the budget.
C22_BudgetInOrder ==
    (surf # NoSurface /\ strokes # <<>>) =>
        /\ \A i \in 1..Len(strokes) : surf.lines[i] = DrawnWithin(i, PointsBefore(i))
        /\ PointsDrawn <= Budget

\* C22: the budget is floor(progress x total points), the total counting the
\* points of every stroke; a stroke of fewer than 2 points is never drawn and
\* uses up none of the budget; the other strokes use it up in their order, each
\* drawn whole if it fits in what is left, by its first k points if it
\* straddles the budget and k >= 2, not at all after that; no more points are
\* drawn than the budget.
C22_RenderBudget ==
    (surf # NoSurface /\ strokes # <<>>) =>
        /\ \A i \in 1..Len(strokes) :
             surf.lines[i] = IF NPoints(i) < 2 THEN <<>>
                             ELSE DrawnWithin(i, LinePointsBefore(i))
        /\ PointsDrawn <= Budget

\* strokes of 3 and 2 points rendered at progress 0.5: the budget is 2, the
\* first stroke is drawn by its first 2 points and the second not at all
C22_Witness ==
    /\ surf # NoSurface
    /\ Len(strokes) = 2
    /\ NPoints(1) = 3 /\ NPoints(2) = 2
    /\ progress * 2 = ProgressSteps
    /\ Budget = 2
    /\ surf.lines = << SubSeq(strokes[1], 1, 2), <<>> >>

\* the surface render returns for the drawing at progress prog
SurfaceAt(prog) == render(strokes, BIG_SIZE, BIG_W, prog)

\* sequence a is the beginning of sequence b
IsPrefix(a, b) == Len(a) <= Len(b) /\ SubSeq(b, 1, Len(a)) = a

\* C23: for every drawing and progress values p1 < p2 the budget at p1 is at
\* most the budget at p2, every stroke drawn whole at p1 is drawn whole at p2,
\* and what is drawn of a stroke at p1 is the beginning of what is drawn of it
\* at p2.
C23_Monotone ==
    \A p1, p2 \in 0..ProgressSteps :
        (p1 < p2 /\ strokes # <<>>) =>
            /\ points_to_draw(strokes, p1) <= points_to_draw(strokes, p2)
            /\ \A i \in 1..Len(strokes) :
                 LET l1 == SurfaceAt(p1).lines[i]
                     l2 == SurfaceAt(p2).lines[i]
                 IN /\ IsPrefix(l1, l2)
                    /\ (l1 # <<>> /\ l1 = decode_stroke(strokes[i])) => l2 = l1

\* a render that drew 2 of the 3 points of the first stroke, after a render at
\* lower progress that drew nothing of it
C23_Witness ==
    /\ surf # NoSurface
    /\ prior >= 0 /\ prior < progress
    /\ Len(strokes) = 2
    /\ NPoints(1) = 3
    /\ Len(surf.lines[1]) = 2
    /\ SurfaceAt(prior).lines[1] = <<>>

\* the size and the transform of a surface
Canvas(sf) == <<sf.w, sf.h, sf.minx, sf.miny, sf.scale>>

\* the usable points of all strokes of the drawing
UsablePoints ==
    UNION {{strokes[i][j] : j \in {k \in 1..Len(strokes[i]) : Len(strokes[i][k]) >= 2}} :
             i \in 1..Len(strokes)}

\* C24: render is a function of its arguments.  The bounding box is that of
\* all points of all strokes, and it, the scale and the canvas size are the
\* same at every progress; the surface returned is the one its arguments
\* determine, whatever was rendered before, and the drawing is left as it was.
C24_RenderPure ==
    /\ [](strokes # <<>> =>
            /\ \A prog \in 0..ProgressSteps :
                 Canvas(SurfaceAt(prog)) = Canvas(SurfaceAt(ProgressSteps))
            /\ UsablePoints # {} =>
                 LET sf == SurfaceAt(0) IN
                 /\ sf.minx = Min({pt[1] : pt \in UsablePoints})
                 /\ sf.miny = Min({pt[2] : pt \in UsablePoints}))
    /\ [](surf # NoSurface => surf = SurfaceAt(progress))
    /\ [][strokes' = strokes]_vars

\* a full render of two strokes after a render that had drawn only the first,
\* whose own bounding box is not that of the drawing
C24_Witness ==
    /\ surf # NoSurface
    /\ progress = ProgressSteps
    /\ prior \in 1..(ProgressSteps - 1)
    /\ Len(strokes) = 2
    /\ surf.lines[1] # <<>> /\ surf.lines[2] # <<>>
    /\ SurfaceAt(prior).lines[1] # <<>>
    /\ SurfaceAt(prior).lines[2] = <<>>
    /\ get_bounds(<<strokes[1]>>) # get_bounds(strokes)

\* C25: for a degenerate drawing, one with no strokes or with strokes that have
\* no usable point, render returns the placeholder: an outlined square of the
\* requested size.
C25_PlaceholderForDegenerate ==
    (surf # NoSurface /\ all_points(strokes) = <<>>) =>
        /\ surf.w = BIG_SIZE /\ surf.h = BIG_SIZE
        /\ surf.outline = BIG_W

\* the locals of run_game as the state has them
Locals ==
    [reg |-> Registry, items |-> items, rects |-> rects,
     loaded_words |-> loaded_words, buf |-> buf, flash |-> flash,
     backup_job |-> backup_job, attempts |-> attempts, new_word |-> new_word,
     music_stops |-> music_stops]

\* C26: while a reveal is active a key-down event, whatever the key, changes
\* neither the buffer nor the reveal nor anything else; the buffer is empty
\* from the activation on, and still empty after the iteration that ends the
\* reveal.
C26_KeysIgnored ==
    /\ [](flash # NoFlash =>
            /\ buf = <<>>
            /\ \A key \in Keys : \A draw_speed \in DrawSpeeds :
                 HandleKey(Locals, key, draw_speed) = Locals)
    /\ [][flash # NoFlash => buf' = <<>>]_vars

\* a reveal is active, an iteration has passed since its activation, and a
\* letter typed now would have been accepted were the reveal not active
C26_Witness ==
    /\ flash # NoFlash
    /\ flash.elapsed > 0
    /\ \E key \in Letters : HandleKey_unguarded(Locals, key, 10) # Locals

\* C27: for each activation of a reveal pygame.mixer.music.stop() is called
\* once: in the first iteration that finds drawing_prog >= 1, and in no later
\* iteration of the reveal, the one that ends it included.
C27_MusicStoppedOnce ==
    /\ [](music_stops <= 1)
    /\ [](flash # NoFlash =>
            /\ music_stops = IF flash.music_stopped THEN 1 ELSE 0
            /\ flash.music_stopped <=> DrawingDone(flash))
    /\ [][music_stops' # music_stops =>
            \/ /\ music_stops' = 0
               /\ flash = NoFlash /\ flash' # NoFlash /\ flash'.elapsed = 0
            \/ /\ music_stops' = music_stops + 1
               /\ flash # NoFlash /\ ~DrawingDone(flash)
               /\ flash' # NoFlash => DrawingDone(flash')]_vars
    /\ [][(flash # NoFlash /\ flash' = NoFlash) =>
            music_stops' = 1]_vars

\* the drawing of the reveal is complete, the music has been stopped, and the
\* item is still held on display
C27_Witness ==
    /\ flash # NoFlash
    /\ DrawingDone(flash)
    /\ ~TotalDone(flash)
    /\ flash.music_stopped
    /\ music_stops = 1

\* the rectangle of the item at pos, grown by 20 around its centre, meets none
\* of the rectangles already placed
FreeAt(pos) ==
    LET b == place_args.bounds IN
    \A i \in 1..Len(place_args.rects) :
        LET o == place_args.rects[i] IN
        \/ pos[1] - 10 >= o.x + o.w
        \/ o.x >= pos[1] - 10 + b[1] + 20
        \/ pos[2] - 10 >= o.y + o.h
        \/ o.y >= pos[2] - 10 + b[2] + 20

\* C28: random_pos returns after at most 300 draws and does not raise: it
\* returns the first candidate whose padded rectangle meets none of the placed
\* rectangles, and the anchor (20, 20) when all 300 candidates collide.
C28_RandomPos ==
    placement # NoPlacement =>
        LET free == {n \in 1..300 : FreeAt(Candidate(place_args.stream, n))}
        IN /\ ~placement.raised
           /\ placement.draws <= 300
           /\ placement.rect.w = place_args.bounds[1]
           /\ placement.rect.h = place_args.bounds[2]
           /\ placement.rect.x = placement.pos[1]
           /\ placement.rect.y = placement.pos[2]
           /\ IF free # {}
              THEN /\ placement.draws \in free
                   /\ \A n \in free : placement.draws <= n
                   /\ placement.pos = Candidate(place_args.stream, placement.draws)
              ELSE /\ placement.draws = 300
                   /\ placement.pos = <<20, 20>>

\* all 300 candidates collided with a placed rectangle and the anchor was
\* returned, on top of a rectangle placed there
C28_Witness ==
    /\ placement # NoPlacement
    /\ placement.draws = 300
    /\ placement.pos = <<20, 20>>
    /\ ~FreeAt(<<20, 20>>)
    /\ place_args.stream.before # <<20, 20>>
    /\ place_args.stream.after # <<20, 20>>


(***************************************************************************)
(* The order of the steps on reveal completion                             *)
(***************************************************************************)
\* the places in calls of the calls of fn
At(fn) == { i \in 1..Len(calls) : calls[i].fn = fn }

\* the tries at a new backup job that follow place i of calls
TriesAfter(i) == { k \in (i + 1)..Len(calls) : calls[k].fn = "create_job" }

\* C29 (as stated): on reveal completion the failed-job purge-and-replace runs
\* after get_backup_job() is consulted and before the backup pool is checked
\* for emptiness.
C29_PurgeBeforePoolCheck ==
    \A i \in At("get_backup_job") :
      \A j \in At("get_backup_job_count") :
        j > i => \E k \in At("clean_failed_jobs") : i < k /\ k < j

\* C29 (amended): the failed-job purge-and-replace is the first call of every
\* iteration of the loop and the only one of the iteration, so it runs before
\* the reveal is advanced.  On reveal completion the target item is removed,
\* get_backup_job() is consulted next, and the very next call checks the backup
\* pool for emptiness; when the pool is not empty no job is created, and when
\* it is empty create_job is tried until it succeeds, at most REPLACE_ATTEMPTS
\* times, before the visible jobs are counted.
C29_CompletionOrder ==
    /\ At("clean_failed_jobs") = (IF calls = <<>> THEN {} ELSE {1})
    /\ \A i \in At("get_backup_job") :
         /\ i > 1
         /\ calls[i - 1].fn = "items.pop"
         /\ i < Len(calls) =>
              /\ calls[i + 1].fn = "get_backup_job_count"
              /\ TriesAfter(i + 1) \subseteq (i + 2)..(i + 1 + REPLACE_ATTEMPTS)
              /\ calls[i + 1].ok => TriesAfter(i + 1) = {}
              /\ \A k \in TriesAfter(i + 1) :
                   /\ k = i + 2 \/ k - 1 \in TriesAfter(i + 1)
                   /\ calls[k].ok => k \in {Len(calls), Len(calls) - 1}
              /\ \A k \in At("get_visible_job_count") :
                   /\ k = Len(calls)
                   /\ \/ calls[i + 1].ok /\ k = i + 2
                      \/ calls[k - 1].fn = "create_job" /\ calls[k - 1].ok
                      \/ Cardinality(TriesAfter(i + 1)) = REPLACE_ATTEMPTS

\* a reveal has completed in an iteration that began with a purge which
\* replaced a failed job: the item was removed, a backup job was promoted, the
\* pool was found empty and the second try at a new backup job succeeded
C29_Witness ==
    /\ loop_pc = "tick"
    /\ Len(calls) = 9
    /\ [i \in 1..9 |-> calls[i].fn] =
         <<"clean_failed_jobs", "create_job", "get_completed_jobs", "items.pop",
           "get_backup_job", "get_backup_job_count", "create_job", "create_job",
           "get_visible_job_count">>
    /\ calls[5].ok /\ ~calls[6].ok /\ ~calls[7].ok /\ calls[8].ok


(***************************************************************************)
(* The life of a job                                                       *)
(***************************************************************************)
\* the state of a job that is in the registry
JobState(job) ==
    IF has_failed(job) THEN "Failed"
    ELSE IF is_complete(job) THEN "Ready"
    ELSE IF job.image_ready \/ job.audio_ready THEN "PartiallyReady"
    ELSE "Pending"

\* the moves of a job that stays in the registry
Transitions ==
    { <<"Pending", "PartiallyReady">>, <<"PartiallyReady", "Ready">>,
      <<"Pending", "Failed">>, <<"PartiallyReady", "Failed">> }

\* the download worker takes the word from its queue and its fetch fails
ImageFailureSignal(word) ==
    /\ download_queue # <<>>
    /\ Head(download_queue) = word
    /\ download_queue' = Tail(download_queue)
    /\ failures' = failures + 1

\* the voice worker takes the word from its queue and its request fails
AudioFailureSignal(word) ==
    /\ voice_queue # <<>>
    /\ Head(voice_queue) = word
    /\ voice_queue' = Tail(voice_queue)
    /\ failures' = failures + 1

\* job a of the registry is job b of the registry after the step
Stays(a, b) ==
    /\ b.word = a.word
    /\ a.image_ready => b.image_ready
    /\ a.audio_ready => b.audio_ready
    /\ a.image_failed => b.image_failed
    /\ a.audio_failed => b.audio_failed
    /\ JobState(b) # JobState(a) => <<JobState(a), JobState(b)>> \in Transitions
    /\ b.image_failed /\ ~a.image_failed => ImageFailureSignal(a.word)
    /\ b.audio_failed /\ ~a.audio_failed => AudioFailureSignal(a.word)

\* job a of the registry is not in the registry after the step
Leaves(a) ==
    \/ /\ JobState(a) = "Ready"
       /\ \/ a \in Range(completed_jobs')
          \/ [a EXCEPT !.visible = TRUE] = backup_job'
    \/ /\ JobState(a) = "Failed"
       /\ a.word \in failed_words'

\* C30: every job follows Pending -> PartiallyReady -> Ready -> Consumed, with
\* Failed entered only by a failure signal: a job enters the registry Pending
\* and with an id never used before; while it stays its ready and failed flags
\* are never cleared and it moves only along the state machine, a failure flag
\* being set only by the failure of its own fetch; it leaves only Ready and
\* handed out by get_completed_jobs or get_backup_job, or Failed and purged
\* with its word excluded; and once it has left it never comes back.
C30_JobStateMachine ==
    /\ [](/\ \A i, j \in 1..Len(job_queue) :
               job_queue[i].id = job_queue[j].id => i = j
          /\ \A id \in Ids(job_queue) : id < next_id)
    /\ [][/\ next_id' >= next_id
          /\ \A i \in 1..Len(job_queue) :
               IF job_queue[i].id \in Ids(job_queue')
               THEN \A j \in 1..Len(job_queue') :
                      job_queue'[j].id = job_queue[i].id =>
                        Stays(job_queue[i], job_queue'[j])
               ELSE Leaves(job_queue[i])
          /\ \A j \in 1..Len(job_queue') :
               job_queue'[j].id \notin Ids(job_queue) =>
                 /\ job_queue'[j].id >= next_id
                 /\ JobState(job_queue'[j]) = "Pending"
         ]_vars

\* a visible job has been handed out and is on screen, a job has failed and
\* been purged, and of the jobs in the registry one is Ready and one has only
\* one of its two signals
C30_Witness ==
    /\ returned # <<>>
    /\ items # <<>>
    /\ failed_words # {}
    /\ \E i, j \in 1..Len(job_queue) :
         /\ JobState(job_queue[i]) = "Ready"
         /\ JobState(job_queue[j]) = "PartiallyReady"


(***************************************************************************)
(* The phases of a reveal                                                  *)
(***************************************************************************)
\* the phase the frame shows
Phase(frame) ==
    IF ~frame.reveal THEN "Idle"
    ELSE IF frame.prog < 10 * FLASH_MS THEN "Drawing" ELSE "Holding"

\* elapsed >= FLASH_MS / m, with m = draw_speed / 10
DrawingTimeOver(elapsed, draw_speed) == elapsed * draw_speed >= 10 * FLASH_MS

\* elapsed >= FLASH_MS / m + DISPLAY_MS
TotalTimeOver(elapsed, draw_speed) ==
    elapsed * draw_speed >= 10 * FLASH_MS + DISPLAY_MS * draw_speed

\* the phases of the frames before and after a step
PhaseStep == <<Phase(rv_frame), Phase(rv_frame')>>

\* C31: an activated reveal shows Drawing frames, then Holding frames, and is
\* then cleared (Idle): its first frame is a Drawing frame, its frames never go
\* back from Holding to Drawing, and the iteration that clears it shows a
\* Holding frame.  A frame shows the whole drawing exactly when
\* elapsed >= FLASH_MS / m, which comes strictly before FLASH_MS / m + DISPLAY_MS;
\* the reveal is cleared in the first iteration with
\* elapsed >= FLASH_MS / m + DISPLAY_MS and in no earlier one; and every
\* activated reveal is cleared in the end.
C31_RevealPhases ==
    /\ [](rv_frame.reveal =>
            /\ (Phase(rv_frame) = "Holding" <=>
                   DrawingTimeOver(rv_frame.elapsed, rv_frame.draw_speed))
            /\ TotalTimeOver(rv_frame.elapsed, rv_frame.draw_speed) =>
                 DrawingTimeOver(rv_frame.elapsed - DISPLAY_MS, rv_frame.draw_speed)
            /\ (rv_flash = NoFlash <=>
                   TotalTimeOver(rv_frame.elapsed, rv_frame.draw_speed)))
    /\ [](rv_flash # NoFlash =>
            /\ rv_frame.reveal
            /\ rv_frame.elapsed = rv_flash.elapsed
            /\ rv_frame.draw_speed = rv_flash.draw_speed
            /\ (rv_flash.music_stopped <=> Phase(rv_frame) = "Holding"))
    /\ [][IF rv_flash = NoFlash
          THEN IF rv_flash' = NoFlash
               THEN Phase(rv_frame') = "Idle"
               ELSE Phase(rv_frame') = "Drawing" /\ rv_flash'.elapsed = 0
          ELSE /\ PhaseStep \in { <<"Drawing", "Drawing">>, <<"Drawing", "Holding">>,
                                  <<"Holding", "Holding">> }
               /\ rv_frame'.elapsed > rv_frame.elapsed
               /\ rv_frame'.draw_speed = rv_frame.draw_speed]_vars
    /\ (rv_flash # NoFlash ~> rv_flash = NoFlash)

\* a reveal at speed 1.2 was cleared by the frame that first showed the whole
\* drawing, an iteration having taken 6 seconds
C31_Witness ==
    /\ rv_flash = NoFlash
    /\ rv_frame.reveal
    /\ rv_frame.draw_speed = 12
    /\ rv_frame.elapsed = 6016

\* C32: the pen sound is started at an offset s with 0 <= s and
\* s + FLASH_MS / m <= SOUND_LENGTH_MS, for every draw speed m.
C32_StartWithinSample ==
    rv_start # NoStart =>
      /\ rv_start.num >= 0
      /\ rv_start.den \in RevealSpeeds
      /\ rv_start.num + 10 * FLASH_MS <= SOUND_LENGTH_MS * rv_start.den

\* at speed 0.8 the pen sound was started at the latest offset, 2.5 seconds
\* before the end of the sample
C32_Witness ==
    /\ rv_flash # NoFlash
    /\ rv_start # NoStart
    /\ rv_start.den = 8
    /\ rv_start.num = (SOUND_LENGTH_MS - 2500) * 8


(***************************************************************************)
(* The report of download_worker                                           *)
(***************************************************************************)
\* C33: for the word download_worker has dequeued, mark_image_ready is called
\* exactly once: never twice, and once by the time the word is dealt with, with
\* what choose_efficient returned (a drawing, or None when the last fetch
\* yielded None or raised) or with None when the try block raised.
C33_MarkedOnce ==
    /\ Len(dw_marks) <= 1
    /\ dw_pc \in {"done", "end"} => Len(dw_marks) = 1
    /\ dw_marks # <<>> =>
         dw_marks[1] = (IF ce = NoCall THEN NoDrawing ELSE ce.ret)
    /\ (ce # NoCall /\ dw_marks # <<>>) =>
         /\ ce.ret # Raises
         /\ ce.ret = NoDrawing \/ ce.ret \in Range(qd_results)

\* every fetch of the word raised, choose_efficient returned None after four
\* fetches, and the word was reported once, with None
C33_Witness ==
    /\ dw_pc = "end"
    /\ \A i \in 1..(TRIES + 1) : qd_results[i] = Raises
    /\ ce # NoCall
    /\ ce.fetches = TRIES + 1
    /\ dw_marks = <<NoDrawing>>


(***************************************************************************)
(* The jobs the main loop takes                                            *)
(***************************************************************************)
\* C34: every job the main loop's get_completed_jobs call pops is, at the end
\* of the same iteration, an item on screen or a job of the registry again; no
\* completed job is dropped.
C34_NoJobDropped ==
    [][Len(returned') > Len(returned) =>
         \A i \in 1..Len(completed_jobs') :
           \/ completed_jobs'[i].id \in Ids(items')
           \/ completed_jobs'[i].id \in Ids(job_queue')]_vars


(***************************************************************************)
(* The items on screen                                                     *)
(***************************************************************************)
\* C35: no two items on screen carry the same word.
C35_DistinctWords ==
    \A i, j \in 1..Len(items) : items[i].word = items[j].word => i = j

\* a backup job has been promoted to the screen, and the backup job created
\* after it is for a word that is on screen: its image has arrived, its voice
\* is not asked for again, and it waits in the registry
C35_Witness ==
    /\ backup_job # NoJob
    /\ backup_job.id \in Ids(items)
    /\ Len(items) >= 2
    /\ \E i \in 1..Len(job_queue) :
         /\ job_queue[i].word \in Words(items)
         /\ ~job_queue[i].visible
         /\ job_queue[i].image_ready
         /\ ~job_queue[i].audio_ready
         /\ job_queue[i].word \notin Range(voice_queue)


\* C36: the items on screen and the jobs of the registry whose visible flag is
\* set never number more than MAX_ITEMS together; so while MAX_ITEMS items are
\* on screen no visible job is in the registry, complete or not.
C36_VisibleSlots ==
    /\ Len(items) + get_visible_job_count(job_queue) <= MAX_ITEMS
    /\ Len(items) = MAX_ITEMS =>
         \A i \in 1..Len(job_queue) : ~job_queue[i].visible
    /\ Len(items) = MAX_ITEMS =>
         get_completed_jobs(job_queue, TRUE).completed = <<>>

\* four items are on screen and the fifth slot belongs to a visible job that
\* replaced a failed one and is now complete
C36_Witness ==
    /\ Len(items) = MAX_ITEMS - 1
    /\ failed_words # {}
    /\ \E i \in 1..Len(job_queue) :
         /\ job_queue[i].visible
         /\ job_queue[i].id > MAX_ITEMS + 1
         /\ is_complete(job_queue[i])


\* C37: the registry never holds more than one job whose visible flag is
\* false, be it pending, ready or failed.
C37_OneBackup == get_backup_job_count(job_queue) <= 1

\* the first backup job failed and was purged, no backup has been promoted,
\* and the registry holds the one backup job that replaced it
C37_Witness ==
    /\ backup_job = NoJob
    /\ \E w \in BackupWords : w \in failed_words
    /\ \E i \in 1..Len(job_queue) :
         ~job_queue[i].visible /\ job_queue[i].id > MAX_ITEMS + 1


(***************************************************************************)
(* The typed buffer                                                        *)
(***************************************************************************)
\* the character a key types
CharOf(key) == IF key = "SPACE" THEN " " ELSE key

\* C38: after every iteration of the main loop the buffer is empty or a prefix
\* of the word of an item on screen: a letter or a space that would make it a
\* prefix of no displayed word leaves it as it is, and an item leaves the
\* screen only in an iteration that begins and ends with the buffer empty.
C38_BufferIsPrefix ==
    /\ [](buf = <<>> \/ AnyStartsWith(items, buf))
    /\ [](\A key \in Letters \cup {"SPACE"} :
            ~AnyStartsWith(items, Append(buf, CharOf(key))) =>
               HandleKey(Locals, key, 10) = Locals)
    /\ [][~(Ids(items) \subseteq Ids(items')) => buf = <<>> /\ buf' = <<>>]_vars

\* the buffer holds "a " with "a b" on screen, where the letter "a" would be
\* rejected and the letter "b" would complete the word
C38_Witness ==
    /\ buf = <<"a", " ">>
    /\ flash = NoFlash
    /\ HandleKey(Locals, "a", 10) = Locals
    /\ HandleKey(Locals, "b", 10).flash # NoFlash


(***************************************************************************)
(* The order of the locks                                                  *)
(***************************************************************************)
\* thread t is at an acquire of a lock that is held
Blocked(t) ==
    \/ NextStep(t) = "lock" /\ job_lock # Free
    \/ NextStep(t) = "vlock" /\ voice_lock # Free

\* the thread that holds the lock thread t is about to acquire
Holder(t) == IF NextStep(t) = "lock" THEN job_lock ELSE voice_lock

\* C39: the locks cannot deadlock: no thread acquires a lock it holds, job_lock
\* is never acquired by a thread that holds voice_lock (the two nest only as
\* job_lock then voice_lock), and every thread that waits for a lock waits,
\* directly or through one other waiting thread, for a thread that can go on.
C39_NoDeadlock ==
    /\ \A t \in Threads :
         /\ NextStep(t) = "lock" => job_lock # t /\ voice_lock # t
         /\ NextStep(t) = "vlock" => voice_lock # t
         /\ Blocked(t) => ~Blocked(Holder(t)) \/ ~Blocked(Holder(Holder(t)))
    /\ (\E t \in Threads : pc[t] # <<>>) => ENABLED Step

\* the image worker waits for job_lock, which the main loop holds inside
\* create_job while it waits for voice_lock, which the voice worker holds
C39_Witness ==
    /\ NextStep("download") = "lock"
    /\ job_lock = "main"
    /\ NextStep("main") = "vlock"
    /\ voice_lock = "voice"
    /\ ~Blocked("voice")


(***************************************************************************)
(* The finished drawing                                                    *)
(***************************************************************************)
\* C40: at progress 1 render draws in full every stroke that has at least 2
\* usable points and draws nothing of the strokes that have fewer, wherever
\* the short strokes stand in the drawing.
C40_AllStrokesAtFullProgress ==
    (surf # NoSurface /\ strokes # <<>> /\ progress = ProgressSteps) =>
        /\ Budget = total_points(strokes)
        /\ \A i \in 1..Len(strokes) :
             surf.lines[i] = IF NPoints(i) >= 2 THEN decode_stroke(strokes[i])
                             ELSE <<>>

\* a drawing whose first stroke has one usable point and whose second has
\* three, rendered at progress 1: the second stroke is drawn in full
C40_Witness ==
    /\ surf # NoSurface
    /\ progress = ProgressSteps
    /\ Len(strokes) = 2
    /\ NPoints(1) = 1
    /\ NPoints(2) = 3
    /\ surf.lines = << <<>>, decode_stroke(strokes[2]) >>

====
